---- MODULE Spec2Model ----
(***************************************************************************)
(* Model of the audio/video transcriber: the energy-based region detector  *)
(* (vad.py find_speech_regions), the region grouper (vad.py group_regions),*)
(* the transcription pipeline (main.py transcribe_file), the segment       *)
(* assembler (vad.py regions_to_segments, main.py _distribute_texts) and   *)
(* the subtitle formatter (srt_generator.py), the watch loop (main.py       *)
(* watch_folder) and the progress threads of the transcriber               *)
(* (transcriber.py).  Each specification uses the variable of the part it  *)
(* models and leaves the others idle.                                      *)
(*                                                                         *)
(* Times of the detector are exact and counted in audio frames (1/rate     *)
(* second), so total_duration = total_frames / rate is total_frames and    *)
(* chunk_duration = frame_width / rate is frame_width; the threshold is    *)
(* the exact percentile together with the rounding of its float.  Times of *)
(* grouper are counted on an integer grid (half seconds in the example),   *)
(* times of the pipeline in seconds.                                       *)
(***************************************************************************)
EXTENDS Integers, Sequences, FiniteSets, TLC

VARIABLES vad, grp, app, asm, fmt, trn

vars == <<vad, grp, app, asm, fmt, trn>>

(***************************************************************************)
(* Bounds of the model                                                     *)
(***************************************************************************)
MaxFrames == 4        \* header frame counts 0..MaxFrames
MaxEnergy == 2        \* per-chunk RMS energies 0..MaxEnergy
MaxFrameWidth == 2    \* frame_width 1..MaxFrameWidth
MaxMinRegion == 2     \* min_region_size 0..MaxMinRegion
MaxMaxRegion == 2     \* max_region_size 0..MaxMaxRegion
MaxTime == 6          \* region bounds of the grouper 0..MaxTime
MaxRegions == 3       \* region lists of the grouper have 0..MaxRegions regions
MaxGroupDuration == 4 \* max_group_duration 1..MaxGroupDuration
MaxGap == 2           \* max_gap 0..MaxGap
MaxSvcTime == 2       \* the service's chunk-relative timestamps 0..MaxSvcTime

\* energy_threshold_percentile is PctNum / PctDen (the default 0.2 is 1/5)
PctDen == 5

Idle == [pc |-> "idle"]

Min2(a, b) == IF a <= b THEN a ELSE b
CeilDiv(a, b) == (a + b - 1) \div b

(***************************************************************************)
(* vad.py: _percentile                                                     *)
(***************************************************************************)
RECURSIVE InsertSorted(_, _)
InsertSorted(s, x) ==
    IF s = <<>> THEN <<x>>
    ELSE IF x <= Head(s) THEN <<x>> \o s
    ELSE <<Head(s)>> \o InsertSorted(Tail(s), x)

RECURSIVE sorted(_)
sorted(arr) ==
    IF arr = <<>> THEN <<>> ELSE InsertSorted(sorted(Tail(arr)), Head(arr))

\* _percentile(arr, pn / PctDen) * PctDen, exactly.  Python indexes from 0,
\* TLA+ sequences from 1.
percentile(arr, pn) ==
    LET s == sorted(arr)
        kNum == (Len(s) - 1) * pn            \* k * PctDen
        f == kNum \div PctDen                \* math.floor(k)
        c == CeilDiv(kNum, PctDen)           \* math.ceil(k)
    IN  IF f = c THEN s[f + 1] * PctDen
        ELSE s[f + 1] * (c * PctDen - kNum) + s[c + 1] * (kNum - f * PctDen)

\* lines 22-25: the interpolation arr[f] * (c - k) + arr[c] * (k - f) is
\* computed in floats.  Between two different neighbours the rounding cannot
\* reach either of them, and products of 0 are exact; between two equal
\* non-zero neighbours x the sum is x or a float next to x, below or above.
\* The roundings a call can show: -1 below, 0 exact, 1 above the exact value.
percentile_roundings(arr, pn) ==
    IF arr = <<>> THEN {0}
    ELSE LET s == sorted(arr)
             kNum == (Len(s) - 1) * pn
             f == kNum \div PctDen
             c == CeilDiv(kNum, PctDen)
         IN  IF f # c /\ s[f + 1] = s[c + 1] /\ s[f + 1] # 0
             THEN {-1, 0, 1}
             ELSE {0}

\* energy <= t for the float t that lies `rounding` places from the exact
\* value threshold / PctDen
LessEq(energy, threshold, rounding) ==
    \/ energy * PctDen < threshold
    \/ energy * PctDen = threshold /\ rounding >= 0

\* energy < t for the same float t
Less(energy, threshold, rounding) ==
    \/ energy * PctDen < threshold
    \/ energy * PctDen = threshold /\ rounding > 0

(***************************************************************************)
(* vad.py: find_speech_regions                                             *)
(***************************************************************************)
None == <<>>

\* lines 79-81
total_duration(w) == w.nframes
chunk_duration(p) == p.frame_width
n_chunks(w, p) == total_duration(w) \div chunk_duration(p)

\* lines 88-93: one energy per non-empty read, at most n_chunks reads
ReadEnergies(w, p) == SubSeq(w.energy, 1, Min2(n_chunks(w, p), Len(w.energy)))

\* Faulty variant of ScanStep: a closed region is not reset to None, so the
\* next close emits a region from the same start again.
ScanStep_NoReset(st, energy, p) ==
    LET is_silence == LessEq(energy, st.threshold, st.rounding)
        max_exceeded == /\ st.region_start # None
                        /\ (st.elapsed_time - st.region_start[1]) >= p.max_region_size
        next_time == st.elapsed_time + chunk_duration(p)
    IN  IF (max_exceeded \/ is_silence) /\ st.region_start # None
        THEN [st EXCEPT
                !.regions = IF (st.elapsed_time - st.region_start[1]) >= p.min_region_size
                            THEN Append(@, <<st.region_start[1], st.elapsed_time>>)
                            ELSE @,
                !.elapsed_time = next_time]
        ELSE IF st.region_start = None /\ ~is_silence
        THEN [st EXCEPT !.region_start = <<st.elapsed_time>>,
                        !.elapsed_time = next_time]
        ELSE [st EXCEPT !.elapsed_time = next_time]

\* Faulty variant of ScanStep: the maximum is tested with > instead of >=.
ScanStep_MaxGt(st, energy, p) ==
    LET is_silence == LessEq(energy, st.threshold, st.rounding)
        max_exceeded == /\ st.region_start # None
                        /\ (st.elapsed_time - st.region_start[1]) > p.max_region_size
        next_time == st.elapsed_time + chunk_duration(p)
    IN  IF (max_exceeded \/ is_silence) /\ st.region_start # None
        THEN [st EXCEPT
                !.regions = IF (st.elapsed_time - st.region_start[1]) >= p.min_region_size
                            THEN Append(@, <<st.region_start[1], st.elapsed_time>>)
                            ELSE @,
                !.region_start = None,
                !.elapsed_time = next_time]
        ELSE IF st.region_start = None /\ ~is_silence
        THEN [st EXCEPT !.region_start = <<st.elapsed_time>>,
                        !.elapsed_time = next_time]
        ELSE [st EXCEPT !.elapsed_time = next_time]

\* lines 109-120: one iteration of the scan over the energies
ScanStep(st, energy, p) ==
    LET is_silence == LessEq(energy, st.threshold, st.rounding)
        max_exceeded == /\ st.region_start # None
                        /\ (st.elapsed_time - st.region_start[1]) >= p.max_region_size
        next_time == st.elapsed_time + chunk_duration(p)
    IN  IF (max_exceeded \/ is_silence) /\ st.region_start # None
        THEN [st EXCEPT
                !.regions = IF (st.elapsed_time - st.region_start[1]) >= p.min_region_size
                            THEN Append(@, <<st.region_start[1], st.elapsed_time>>)
                            ELSE @,
                !.region_start = None,
                !.elapsed_time = next_time]
        ELSE IF st.region_start = None /\ ~is_silence
        THEN [st EXCEPT !.region_start = <<st.elapsed_time>>,
                        !.elapsed_time = next_time]
        ELSE [st EXCEPT !.elapsed_time = next_time]

\* Faulty variant of Fallback: a file too short to analyse yields no region.
Fallback_Empty(w) == <<>>

\* lines 85 and 98: the single region spanning the whole file
Fallback(w) == << <<0, total_duration(w)>> >>

\* Faulty variant of ScanClose: the open region is emitted without the
\* minimum-duration test.
ScanClose_NoMin(st, p) ==
    IF st.region_start # None
    THEN Append(st.regions, <<st.region_start[1], st.elapsed_time>>)
    ELSE st.regions

\* lines 123-127: close any open region at the end
ScanClose(st, p) ==
    IF st.region_start # None /\ (st.elapsed_time - st.region_start[1]) >= p.min_region_size
    THEN Append(st.regions, <<st.region_start[1], st.elapsed_time>>)
    ELSE st.regions

\* the audio files and parameter settings of the detector
VadParams ==
    [frame_width : 1..MaxFrameWidth,
     min_region_size : 0..MaxMinRegion,
     max_region_size : 0..MaxMaxRegion,
     pct : 0..PctDen]

\* A WAV file: whether wave.open can read it, the frame count of its
\* header, the frames really present, and the RMS energy of each
\* frame_width-sized slice of the frames present.
WavFiles(fw) ==
    UNION { UNION { [readable : BOOLEAN, nframes : {n}, data : {d},
                     energy : [1..CeilDiv(d, fw) -> 0..MaxEnergy]]
                    : d \in 0..n }
            : n \in 0..MaxFrames }

VadInit ==
    /\ \E p \in VadParams : \E w \in WavFiles(p.frame_width) :
          vad = [pc |-> "open", wav |-> w, p |-> p, energies |-> <<>>,
                 i |-> 0, threshold |-> 0, rounding |-> 0, elapsed_time |-> 0,
                 regions |-> <<>>, region_start |-> None,
                 ret |-> "", result |-> <<>>]
    /\ grp = Idle
    /\ app = Idle
    /\ asm = Idle
    /\ fmt = Idle
    /\ trn = Idle

\* lines 73-104: open the file, read the energies, take the early returns
VadOpen ==
    /\ vad.pc = "open"
    /\ LET w == vad.wav
           p == vad.p
           e == ReadEnergies(w, p)
       IN  \E rounding \in percentile_roundings(e, p.pct) :
             vad' =
               IF ~w.readable
               THEN [vad EXCEPT !.pc = "error", !.ret = "raise"]
               ELSE IF n_chunks(w, p) = 0
               THEN [vad EXCEPT !.pc = "done", !.ret = "short",
                                !.result = Fallback(w)]
               ELSE IF e = <<>>
               THEN [vad EXCEPT !.pc = "done", !.ret = "noenergy",
                                !.result = Fallback(w)]
               ELSE [vad EXCEPT !.pc = "scan", !.energies = e, !.i = 1,
                                !.threshold = percentile(e, p.pct),
                                !.rounding = rounding]
    /\ UNCHANGED <<grp, app, asm, fmt, trn>>

\* lines 108-120
VadScan ==
    /\ vad.pc = "scan"
    /\ vad.i <= Len(vad.energies)
    /\ vad' = [ScanStep(vad, vad.energies[vad.i], vad.p) EXCEPT !.i = vad.i + 1]
    /\ UNCHANGED <<grp, app, asm, fmt, trn>>

\* lines 122-127
VadReturn ==
    /\ vad.pc = "scan"
    /\ vad.i > Len(vad.energies)
    /\ vad' = [vad EXCEPT !.pc = "done", !.ret = "scan",
                          !.result = ScanClose(vad, vad.p)]
    /\ UNCHANGED <<grp, app, asm, fmt, trn>>

VadNext == VadOpen \/ VadScan \/ VadReturn

SpecVad == VadInit /\ [][VadNext]_vars

(***************************************************************************)
(* Properties of find_speech_regions                                       *)
(***************************************************************************)
VadReturned == vad.pc = "done"
VadScanned == vad.pc = "done" /\ vad.ret = "scan"
Duration(r) == r[2] - r[1]

\* C2: the returned list is sorted by start time and pairwise
\* non-overlapping: consecutive regions r[i], r[i+1] satisfy
\* r[i].start < r[i].end <= r[i+1].start (and so does the last region of a
\* scan with itself: start < end).
C2_SortedDisjoint ==
    VadReturned =>
        /\ \A k \in 1..(Len(vad.result) - 1) :
              /\ vad.result[k][1] < vad.result[k][2]
              /\ vad.result[k][2] <= vad.result[k + 1][1]
              /\ vad.result[k][1] < vad.result[k + 1][1]
              /\ vad.result[k + 1][1] < vad.result[k + 1][2]

\* a scan that returned two regions, the first one closed by the maximum
C2_Witness ==
    /\ VadScanned
    /\ Len(vad.result) >= 2
    /\ vad.p.max_region_size >= 1
    /\ Duration(vad.result[1]) >= vad.p.max_region_size

\* C3 as stated: for valid PCM input (readable, at least one frame, every
\* frame of the header present) every returned region, the one returned for
\* a very short file included, lasts at least min_region_size.
C3_AllRegionsMinSize ==
    (VadReturned /\ vad.wav.nframes > 0 /\ vad.wav.data = vad.wav.nframes) =>
        \A k \in 1..Len(vad.result) : Duration(vad.result[k]) >= vad.p.min_region_size

\* C3 amended: every region produced by the scan lasts at least
\* min_region_size (the whole-file fallback region is returned whatever
\* min_region_size is).
C3_ScanRegionsMinSize ==
    VadScanned =>
        \A k \in 1..Len(vad.result) : Duration(vad.result[k]) >= vad.p.min_region_size

\* a scan with min_region_size above one chunk that returned a region and
\* discarded a shorter one
C3_Witness ==
    /\ VadScanned
    /\ vad.p.min_region_size > chunk_duration(vad.p)
    /\ vad.result # <<>>
    /\ \E k \in 1..Len(vad.energies) :
          /\ vad.energies[k] * PctDen > vad.threshold
          /\ \A j \in 1..Len(vad.result) :
                ~(vad.result[j][1] <= (k - 1) * chunk_duration(vad.p)
                  /\ k * chunk_duration(vad.p) <= vad.result[j][2])

\* C4 as stated, for a positive max_region_size: every returned region
\* exceeds max_region_size by less than one chunk.
C4_AllRegionsMaxSize ==
    (VadReturned /\ vad.p.max_region_size > 0) =>
        \A k \in 1..Len(vad.result) :
            Duration(vad.result[k]) < vad.p.max_region_size + chunk_duration(vad.p)

\* C4 amended: with max_region_size > 0, every region produced by the scan
\* (closed during the scan or at end of stream) and the fallback region of
\* a file shorter than one chunk exceed max_region_size by less than one
\* chunk.
C4_ScanRegionsMaxSize ==
    (VadReturned /\ vad.ret \in {"scan", "short"} /\ vad.p.max_region_size > 0) =>
        \A k \in 1..Len(vad.result) :
            Duration(vad.result[k]) < vad.p.max_region_size + chunk_duration(vad.p)

\* a scan that closed a region at the maximum and another at end of stream
C4_Witness ==
    /\ VadScanned
    /\ vad.p.max_region_size > 0
    /\ Len(vad.result) >= 2
    /\ Duration(vad.result[1]) >= vad.p.max_region_size
    /\ vad.result[Len(vad.result)][2] = Len(vad.energies) * chunk_duration(vad.p)
    /\ vad.energies[Len(vad.energies)] * PctDen > vad.threshold

\* C5: a readable file with fewer frames than one chunk, or with no frame
\* to read, yields exactly the region (0, total_duration), whatever
\* min_region_size and the percentile are.
C5_FallbackWholeFile ==
    (vad.pc \in {"done", "scan"}
       /\ (vad.wav.nframes < vad.p.frame_width \/ vad.wav.data = 0)) =>
        /\ vad.pc = "done"
        /\ vad.result = << <<0, vad.wav.nframes>> >>

\* a non-empty file shorter than one chunk and shorter than
\* min_region_size, returned as one region
C5_Witness ==
    /\ VadReturned
    /\ vad.wav.nframes > 0
    /\ vad.wav.nframes < vad.p.frame_width
    /\ vad.wav.data = vad.wav.nframes
    /\ vad.result = << <<0, vad.wav.nframes>> >>
    /\ vad.wav.nframes < vad.p.min_region_size

\* a file of at least one chunk by its header, none of whose frames can be
\* read, returned as one region
C5_WitnessNoEnergy ==
    /\ VadReturned
    /\ vad.wav.nframes >= vad.p.frame_width
    /\ vad.wav.data = 0
    /\ vad.result = << <<0, vad.wav.nframes>> >>

\* C6 as stated: a zero-length stream (zero frames) never yields a region
\* list; the call ends with an error.
C6_ZeroLengthFails ==
    (vad.pc \in {"done", "error"} /\ vad.wav.nframes = 0) => vad.pc = "error"

\* C23 as stated: when the scan closes the open region at a non-silent
\* sample (the region reached a positive max_region_size) and keeps it, a
\* new region is open after that same step and starts at that sample's
\* elapsed time, the end of the region just closed.
C23_ReopenSameStep ==
    (/\ vad.pc = "scan"
     /\ vad.p.max_region_size > 0
     /\ vad.i > 1
     /\ vad.regions # <<>>
     /\ vad.regions[Len(vad.regions)][2] = vad.elapsed_time - chunk_duration(vad.p)
     /\ ~LessEq(vad.energies[vad.i - 1], vad.threshold, vad.rounding)) =>
        vad.region_start = <<vad.elapsed_time - chunk_duration(vad.p)>>

\* frame k of the file (1-based) lies inside region r
FrameInside(k, r, p) ==
    r[1] <= (k - 1) * chunk_duration(p) /\ k * chunk_duration(p) <= r[2]

\* C27 as stated: in the result of a scan every frame inside a region has an
\* energy strictly above the threshold, so a frame of the lowest energy is
\* inside no region; every region starts and ends on a multiple of
\* chunk_duration and ends no later than n_chunks * chunk_duration.
C27_RegionsAboveThreshold ==
    VadScanned =>
        /\ \A j \in 1..Len(vad.result) : \A k \in 1..Len(vad.energies) :
              FrameInside(k, vad.result[j], vad.p) =>
                  ~LessEq(vad.energies[k], vad.threshold, vad.rounding)
        /\ \A k \in 1..Len(vad.energies) :
              (\A m \in 1..Len(vad.energies) : vad.energies[k] <= vad.energies[m]) =>
                  \A j \in 1..Len(vad.result) : ~FrameInside(k, vad.result[j], vad.p)
        /\ \A j \in 1..Len(vad.result) :
              /\ vad.result[j][1] % chunk_duration(vad.p) = 0
              /\ vad.result[j][2] % chunk_duration(vad.p) = 0
              /\ vad.result[j][2] <= n_chunks(vad.wav, vad.p) * chunk_duration(vad.p)

(***************************************************************************)
(* Specification of _percentile: a non-empty list, a reordering of it and  *)
(* a percentile are drawn, the function is applied to both lists.  The     *)
(* rounding of the float interpolation depends on the sorted values and    *)
(* the percentile only, so both calls show the same one.                   *)
(***************************************************************************)
MaxPctLen == 3

\* the list [1, 2, 3, 4, 5]
OneToFive == <<1, 2, 3, 4, 5>>

PctLists ==
    (UNION { [1..n -> 0..MaxEnergy] : n \in 1..MaxPctLen }) \cup {OneToFive}

Reorderings(arr) ==
    { [i \in 1..Len(arr) |-> arr[q[i]]] : q \in Permutations(1..Len(arr)) }

\* the float _percentile returns: value / PctDen, moved by `rounding`
PercentileFloat(arr, pn, rounding) ==
    [value |-> percentile(arr, pn), rounding |-> rounding]

PctInit ==
    /\ \E arr \in PctLists : \E other \in Reorderings(arr) : \E pn \in 0..PctDen :
       \E rounding \in percentile_roundings(arr, pn) :
          vad = [pc |-> "call", arr |-> arr, other |-> other, pn |-> pn,
                 rounding |-> rounding,
                 result |-> [value |-> 0, rounding |-> 0],
                 result_other |-> [value |-> 0, rounding |-> 0]]
    /\ grp = Idle
    /\ app = Idle
    /\ asm = Idle
    /\ fmt = Idle
    /\ trn = Idle

PctCall ==
    /\ vad.pc = "call"
    /\ vad' = [vad EXCEPT
                 !.pc = "returned",
                 !.result = PercentileFloat(vad.arr, vad.pn, vad.rounding),
                 !.result_other = PercentileFloat(vad.other, vad.pn, vad.rounding)]
    /\ UNCHANGED <<grp, app, asm, fmt, trn>>

PctNext == PctCall

SpecPct == PctInit /\ [][PctNext]_vars

\* C26 as stated: for a non-empty arr and p in [0, 1], with s the sorted
\* arr and k = (n - 1) * p, _percentile returns s[k] when k is integral and
\* s[floor k] * (ceil k - k) + s[ceil k] * (k - floor k) otherwise; the
\* result lies between the minimum and the maximum of arr and does not
\* depend on the order of arr; _percentile([1, 2, 3, 4, 5], 0.2) is 1.8.
C26_PercentileInterpolates ==
    vad.pc = "returned" =>
        LET s == sorted(vad.arr)
            n == Len(s)
            kNum == (n - 1) * vad.pn
            lo == kNum \div PctDen
            hi == CeilDiv(kNum, PctDen)
        IN  /\ vad.result.value =
                  IF kNum % PctDen = 0 THEN s[lo + 1] * PctDen
                  ELSE s[lo + 1] * (hi * PctDen - kNum) + s[hi + 1] * (kNum - lo * PctDen)
            /\ LessEq(s[1], vad.result.value, vad.result.rounding)
            /\ ~Less(s[n], vad.result.value, vad.result.rounding)
            /\ vad.result_other = vad.result
            /\ (vad.arr = OneToFive /\ vad.pn = 1) =>
                  vad.result = [value |-> 9, rounding |-> 0]

(***************************************************************************)
(* vad.py: group_regions                                                   *)
(***************************************************************************)
\* lines 149-153 and 167-171: a group holding the single region r
NewGroup(r) == [start |-> r[1], end |-> r[2], regions |-> <<r>>]

\* Faulty variant of GroupStep: a region is merged when either condition
\* holds.
GroupStep_Or(st, r, D, G) ==
    LET gap == r[1] - st.current_group.end
        new_duration == r[2] - st.current_group.start
    IN  IF gap <= G \/ new_duration <= D
        THEN [st EXCEPT !.current_group.end = r[2],
                        !.current_group.regions = Append(@, r)]
        ELSE [groups |-> Append(st.groups, st.current_group),
              current_group |-> NewGroup(r)]

\* Faulty variant of GroupStep: the duration cap is not tested.
GroupStep_NoCap(st, r, D, G) ==
    LET gap == r[1] - st.current_group.end
    IN  IF gap <= G
        THEN [st EXCEPT !.current_group.end = r[2],
                        !.current_group.regions = Append(@, r)]
        ELSE [groups |-> Append(st.groups, st.current_group),
              current_group |-> NewGroup(r)]

\* Faulty variant of GroupStep: a merge does not extend the group's end.
GroupStep_NoExtend(st, r, D, G) ==
    LET gap == r[1] - st.current_group.end
        new_duration == r[2] - st.current_group.start
    IN  IF gap <= G /\ new_duration <= D
        THEN [st EXCEPT !.current_group.regions = Append(@, r)]
        ELSE [groups |-> Append(st.groups, st.current_group),
              current_group |-> NewGroup(r)]

\* lines 156-171: one iteration of the loop, for the region r = regions[i]
GroupStep(st, r, D, G) ==
    LET gap == r[1] - st.current_group.end
        new_duration == r[2] - st.current_group.start
    IN  IF gap <= G /\ new_duration <= D
        THEN [st EXCEPT !.current_group.end = r[2],
                        !.current_group.regions = Append(@, r)]
        ELSE [groups |-> Append(st.groups, st.current_group),
              current_group |-> NewGroup(r)]

\* lines 155-171: the loop from index i (1-based) on
RECURSIVE GroupLoop(_, _, _, _, _)
GroupLoop(st, regions, i, D, G) ==
    IF i > Len(regions) THEN st
    ELSE GroupLoop(GroupStep(st, regions[i], D, G), regions, i + 1, D, G)

\* Faulty variant of group_regions: the group still open after the loop is
\* not appended.
group_regions_NoLast(regions, D, G) ==
    IF regions = <<>> THEN <<>>
    ELSE GroupLoop([groups |-> <<>>, current_group |-> NewGroup(regions[1])],
                   regions, 2, D, G).groups

\* lines 130-174: group_regions(regions, max_group_duration = D, max_gap = G)
group_regions(regions, D, G) ==
    IF regions = <<>> THEN <<>>
    ELSE LET st == GroupLoop([groups |-> <<>>, current_group |-> NewGroup(regions[1])],
                             regions, 2, D, G)
         IN  Append(st.groups, st.current_group)

\* the (start, end) intervals of a list of groups, as a region list
Intervals(groups) == [k \in 1..Len(groups) |-> <<groups[k].start, groups[k].end>>]

\* Region lists as find_speech_regions produces them: start < end, sorted,
\* non-overlapping, at most n regions, on the grid 0..MaxTime.
RECURSIVE RegionLists(_)
RegionLists(n) ==
    IF n = 0 THEN {<<>>}
    ELSE LET shorter == RegionLists(n - 1)
             longest == {l \in shorter : Len(l) = n - 1}
         IN  shorter \cup
             { Append(t[1], <<t[2], t[3]>>) :
                 t \in { u \in longest \X (0..MaxTime) \X (0..MaxTime) :
                            /\ u[2] < u[3]
                            /\ (n = 1 \/ u[1][n - 1][2] <= u[2]) } }

GroupInit ==
    /\ \E regions \in RegionLists(MaxRegions) :
       \E D \in 1..MaxGroupDuration : \E G \in 0..MaxGap :
          grp = [pc |-> "call", regions |-> regions, max_group_duration |-> D,
                 max_gap |-> G, groups |-> <<>>, regrouped |-> <<>>]
    /\ vad = Idle
    /\ app = Idle
    /\ asm = Idle
    /\ fmt = Idle
    /\ trn = Idle

\* group_regions(regions, max_group_duration, max_gap)
GroupCall ==
    /\ grp.pc = "call"
    /\ grp' = [grp EXCEPT !.pc = "grouped",
                          !.groups = group_regions(grp.regions, grp.max_group_duration,
                                                   grp.max_gap)]
    /\ UNCHANGED <<vad, app, asm, fmt, trn>>

\* group_regions again, on the intervals of the groups it returned
GroupAgain ==
    /\ grp.pc = "grouped"
    /\ grp' = [grp EXCEPT !.pc = "regrouped",
                          !.regrouped = group_regions(Intervals(grp.groups),
                                                      grp.max_group_duration, grp.max_gap)]
    /\ UNCHANGED <<vad, app, asm, fmt, trn>>

GroupNext == GroupCall \/ GroupAgain

SpecGroup == GroupInit /\ [][GroupNext]_vars

(***************************************************************************)
(* Properties of group_regions                                             *)
(***************************************************************************)
Grouped == grp.pc \in {"grouped", "regrouped"}

RECURSIVE Members(_)
Members(groups) ==
    IF groups = <<>> THEN <<>> ELSE Head(groups).regions \o Members(Tail(groups))

\* the merge test of the claim, for region r against a group whose members
\* so far are m (its start is the first member's, its end the last one's)
MergeTest(r, m, D, G) ==
    /\ r[1] - m[Len(m)][2] <= G
    /\ r[2] - m[1][1] <= D

\* the region list [(0,1),(1.5,2),(10,11)] in half seconds
ExampleRegions == << <<0, 2>>, <<3, 4>>, <<20, 22>> >>

\* C7: the regions are taken left to right, each into exactly one group; a
\* region joins the current group if and only if its gap to the group's end
\* is <= max_gap and its end minus the group's start is <=
\* max_group_duration, and otherwise starts a new group.  The example
\* [(0,1),(1.5,2),(10,11)] with max_gap 2 and max_group_duration 30 gives
\* the groups (0,2) and (10,11).
C7_GreedyMerge ==
    /\ Grouped =>
         LET gs == grp.groups
             D == grp.max_group_duration
             G == grp.max_gap
         IN  /\ Members(gs) = grp.regions
             /\ \A k \in 1..Len(gs) :
                   /\ gs[k].regions # <<>>
                   /\ \A j \in 2..Len(gs[k].regions) :
                         MergeTest(gs[k].regions[j], SubSeq(gs[k].regions, 1, j - 1), D, G)
             /\ \A k \in 2..Len(gs) :
                   ~MergeTest(gs[k].regions[1], gs[k - 1].regions, D, G)
    /\ group_regions(ExampleRegions, 60, 4) =
         << [start |-> 0, end |-> 4, regions |-> << <<0, 2>>, <<3, 4>> >>],
            [start |-> 20, end |-> 22, regions |-> << <<20, 22>> >>] >>

\* three regions: a merge, then a split by the cap alone (the gap would
\* allow the merge)
C7_Witness ==
    /\ Grouped
    /\ Len(grp.groups) = 2
    /\ Len(grp.regions) = 3
    /\ Len(grp.groups[1].regions) = 2
    /\ grp.groups[2].start - grp.groups[1].end <= grp.max_gap
    /\ grp.groups[2].end - grp.groups[1].start > grp.max_group_duration

\* a split by the gap although the cap would allow the merge
C7_WitnessGap ==
    /\ Grouped
    /\ Len(grp.groups) >= 2
    /\ grp.groups[2].start - grp.groups[1].end > grp.max_gap
    /\ grp.groups[2].regions[1][2] - grp.groups[1].start <= grp.max_group_duration

\* C8: a group of two or more regions spans at most max_group_duration;
\* only a group made of a single region can exceed the cap.
C8_GroupCap ==
    Grouped =>
        \A k \in 1..Len(grp.groups) :
            Len(grp.groups[k].regions) >= 2 =>
                grp.groups[k].end - grp.groups[k].start <= grp.max_group_duration

\* a group of two regions under the cap next to a single region over it
C8_Witness ==
    /\ Grouped
    /\ \E k \in 1..Len(grp.groups) : Len(grp.groups[k].regions) >= 2
    /\ \E k \in 1..Len(grp.groups) :
          /\ Len(grp.groups[k].regions) = 1
          /\ grp.groups[k].end - grp.groups[k].start > grp.max_group_duration

\* C9: for a sorted, non-overlapping region list the groups are pairwise
\* disjoint and ordered by start, and each group's start is the minimum
\* start and its end the maximum end of its member regions.
C9_GroupsDisjointOrdered ==
    Grouped =>
        /\ \A k \in 1..Len(grp.groups) :
              LET g == grp.groups[k]
              IN  /\ \E j \in 1..Len(g.regions) : g.regions[j][1] = g.start
                  /\ \A j \in 1..Len(g.regions) : g.regions[j][1] >= g.start
                  /\ \E j \in 1..Len(g.regions) : g.regions[j][2] = g.end
                  /\ \A j \in 1..Len(g.regions) : g.regions[j][2] <= g.end
        /\ \A k \in 1..(Len(grp.groups) - 1) :
              /\ grp.groups[k].start < grp.groups[k + 1].start
              /\ grp.groups[k].end <= grp.groups[k + 1].start

\* two groups, the first one of several regions with silence between them
C9_Witness ==
    /\ Grouped
    /\ Len(grp.groups) >= 2
    /\ Len(grp.groups[1].regions) >= 2
    /\ grp.groups[1].regions[1][2] < grp.groups[1].regions[2][1]

\* C10: grouping the (start, end) intervals of the groups again, with the
\* same max_group_duration and max_gap, gives groups with exactly the same
\* intervals, one input interval per group.
C10_RegroupIdempotent ==
    grp.pc = "regrouped" =>
        /\ Intervals(grp.regrouped) = Intervals(grp.groups)
        /\ \A k \in 1..Len(grp.regrouped) :
              grp.regrouped[k].regions = << <<grp.groups[k].start, grp.groups[k].end>> >>

\* a regrouping of merged groups that the gap would let merge again and
\* only the cap keeps apart
C10_Witness ==
    /\ grp.pc = "regrouped"
    /\ Len(grp.groups) >= 2
    /\ Len(grp.groups[1].regions) >= 2
    /\ Len(grp.regrouped) = Len(grp.groups)
    /\ grp.groups[2].start - grp.groups[1].end <= grp.max_gap

(***************************************************************************)
(* Python str values are sequences of one-character strings, so that       *)
(* trimming, splitting and joining are computed and not assumed.  Times of *)
(* the segment assembler and of the subtitle formatter are exact and       *)
(* counted in ticks of 1/TicksPerMs millisecond.                           *)
(***************************************************************************)
\* str.strip(), str.split(): the whitespace characters of the texts
Whitespace == {" ", "\n"}

RECURSIVE lstrip(_)
lstrip(s) ==
    IF s # <<>> /\ Head(s) \in Whitespace THEN lstrip(Tail(s)) ELSE s

RECURSIVE rstrip(_)
rstrip(s) ==
    IF s # <<>> /\ s[Len(s)] \in Whitespace
    THEN rstrip(SubSeq(s, 1, Len(s) - 1))
    ELSE s

\* text.strip()
strip(s) == rstrip(lstrip(s))

\* str.split() with no argument: the maximal runs of non-whitespace, from
\* position i on, with word the run read so far
RECURSIVE SplitWords(_, _, _)
SplitWords(s, i, word) ==
    IF i > Len(s) THEN (IF word = <<>> THEN <<>> ELSE <<word>>)
    ELSE IF s[i] \in Whitespace
         THEN (IF word = <<>> THEN <<>> ELSE <<word>>) \o SplitWords(s, i + 1, <<>>)
         ELSE SplitWords(s, i + 1, Append(word, s[i]))

split(s) == SplitWords(s, 1, <<>>)

\* str.split(sep): the parts between the separators, empty parts included
RECURSIVE SplitParts(_, _, _, _)
SplitParts(s, sep, i, part) ==
    IF i > Len(s) THEN <<part>>
    ELSE IF s[i] = sep
         THEN <<part>> \o SplitParts(s, sep, i + 1, <<>>)
         ELSE SplitParts(s, sep, i + 1, Append(part, s[i]))

split_sep(s, sep) == SplitParts(s, sep, 1, <<>>)

\* sep.join(parts)
RECURSIVE join(_, _)
join(sep, parts) ==
    IF parts = <<>> THEN <<>>
    ELSE IF Len(parts) = 1 THEN parts[1]
    ELSE parts[1] \o sep \o join(sep, Tail(parts))

\* the concatenation of a sequence of sequences
RECURSIVE Flatten(_)
Flatten(ss) == IF ss = <<>> THEN <<>> ELSE Head(ss) \o Flatten(Tail(ss))

\* all sequences over alphabet of length at most n
RECURSIVE SeqsUpTo(_, _)
SeqsUpTo(alphabet, n) ==
    IF n = 0 THEN {<<>>}
    ELSE LET shorter == SeqsUpTo(alphabet, n - 1)
         IN  shorter \cup { Append(s, c) : s \in shorter, c \in alphabet }

\* ticks per millisecond: odd, so that no time lies half-way between two
\* milliseconds and round(x, 3) never meets a tie
TicksPerMs == 5
TicksPerSecond == 1000 * TicksPerMs

(***************************************************************************)
(* srt_generator.py: SRTGenerator                                          *)
(***************************************************************************)
\* lines 53-65 with the length test replaced by "always fits"
WrapWords_NoLimit(words, current_line, max_chars_per_line) ==
    IF words = <<>> THEN <<>> ELSE << join(<<" ">>, words) >>

\* lines 53-65 flushing the line without starting the next one with word
RECURSIVE WrapWords_DropWord(_, _, _)
WrapWords_DropWord(words, current_line, max_chars_per_line) ==
    IF words = <<>>
    THEN (IF current_line = <<>> THEN <<>> ELSE << join(<<" ">>, current_line) >>)
    ELSE LET word == Head(words)
             test_line == join(<<" ">>, Append(current_line, word))
         IN  IF Len(test_line) <= max_chars_per_line
             THEN WrapWords_DropWord(Tail(words), Append(current_line, word),
                                     max_chars_per_line)
             ELSE (IF current_line = <<>> THEN <<>>
                   ELSE << join(<<" ">>, current_line) >>)
                  \o WrapWords_DropWord(Tail(words), <<>>, max_chars_per_line)

\* lines 53-65: pack the words of one paragraph greedily into lines
RECURSIVE WrapWords(_, _, _)
WrapWords(words, current_line, max_chars_per_line) ==
    IF words = <<>>
    THEN (IF current_line = <<>> THEN <<>> ELSE << join(<<" ">>, current_line) >>)
    ELSE LET word == Head(words)
             test_line == join(<<" ">>, Append(current_line, word))
         IN  IF Len(test_line) <= max_chars_per_line
             THEN WrapWords(Tail(words), Append(current_line, word), max_chars_per_line)
             ELSE (IF current_line = <<>> THEN <<>>
                   ELSE << join(<<" ">>, current_line) >>)
                  \o WrapWords(Tail(words), <<word>>, max_chars_per_line)

\* lines 46-51: one paragraph, its runs of whitespace collapsed; an empty
\* paragraph gives no line
WrapParagraph(paragraph, max_chars_per_line) ==
    LET collapsed == join(<<" ">>, split(paragraph))
    IN  IF collapsed = <<>> THEN <<>>
        ELSE WrapWords(split(collapsed), <<>>, max_chars_per_line)

RECURSIVE WrapParagraphs(_, _)
WrapParagraphs(paragraphs, max_chars_per_line) ==
    IF paragraphs = <<>> THEN <<>>
    ELSE WrapParagraph(Head(paragraphs), max_chars_per_line)
         \o WrapParagraphs(Tail(paragraphs), max_chars_per_line)

\* lines 40-69
wrap_text(text, max_chars_per_line) ==
    WrapParagraphs(split_sep(text, "\n"), max_chars_per_line)

(***************************************************************************)
(* srt_generator.py: format_timestamp and parse_srt_timestamp.  A time is  *)
(* a number of ticks, a timestamp a sequence of characters.                *)
(*                                                                         *)
(* The times of the code are binary floating point numbers.  A decimal     *)
(* k/1000 is one of them only when its milliseconds are a multiple of 125  *)
(* (0.125 = 1/8); any other k/1000 is held as the float next to it, which  *)
(* stands one tick below or above it here (4.005 is held as                *)
(* 4.00499999999999989, 4.004 as 4.00399999999999956).                     *)
(***************************************************************************)
\* the floats a decimal number of milliseconds can be held as: itself if it
\* is a binary fraction, else a neighbour
FloatsOf(value) ==
    IF value % (125 * TicksPerMs) = 0 THEN {value} ELSE {value - 1, value + 1}

DecimalDigits == <<"0", "1", "2", "3", "4", "5", "6", "7", "8", "9">>
IsDigit(c) == \E n \in 1..10 : DecimalDigits[n] = c
DigitValue(c) == (CHOOSE n \in 1..10 : DecimalDigits[n] = c) - 1

\* str(n) for n >= 0
RECURSIVE Decimal(_)
Decimal(n) ==
    IF n < 10 THEN << DecimalDigits[n + 1] >>
    ELSE Append(Decimal(n \div 10), DecimalDigits[(n % 10) + 1])

\* f"{n:0{width}d}": zeros in front up to width, never a digit cut off
RECURSIVE ZeroPad(_, _)
ZeroPad(digits, width) ==
    IF Len(digits) >= width THEN digits ELSE ZeroPad(<<"0">> \o digits, width)

\* f"{n:0{width}d}" of any int: the sign counts in the width
FormatInt(n, width) ==
    IF n >= 0 THEN ZeroPad(Decimal(n), width)
    ELSE <<"-">> \o ZeroPad(Decimal(0 - n), width - 1)

\* int(...) of a run of digits
RECURSIVE IntOf(_)
IntOf(digits) ==
    IF digits = <<>> THEN 0
    ELSE 10 * IntOf(SubSeq(digits, 1, Len(digits) - 1)) + DigitValue(digits[Len(digits)])

\* lines 23-38: int() cuts the fraction off
format_timestamp(seconds) ==
    LET hours == seconds \div (3600 * TicksPerSecond)
        minutes == (seconds % (3600 * TicksPerSecond)) \div (60 * TicksPerSecond)
        secs == (seconds % (60 * TicksPerSecond)) \div TicksPerSecond
        millisecs == ((seconds % TicksPerSecond) * 1000) \div TicksPerSecond
    IN  FormatInt(hours, 2) \o <<":">> \o FormatInt(minutes, 2) \o <<":">>
        \o FormatInt(secs, 2) \o <<",">> \o FormatInt(millisecs, 3)

\* line 233: the pattern (\d{2}):(\d{2}):(\d{2}),(\d{3}) matches the
\* characters of s that follow the first offset ones
MatchAt(s, offset) ==
    /\ Len(s) >= offset + 12
    /\ \A p \in {1, 2, 4, 5, 7, 8, 10, 11, 12} : IsDigit(s[offset + p])
    /\ s[offset + 3] = ":"
    /\ s[offset + 6] = ":"
    /\ s[offset + 9] = ","

\* lines 235-236: the value of the four groups of a match, in ticks
MatchValue(s, offset) ==
    LET hours == IntOf(SubSeq(s, offset + 1, offset + 2))
        minutes == IntOf(SubSeq(s, offset + 4, offset + 5))
        seconds == IntOf(SubSeq(s, offset + 7, offset + 8))
        millis == IntOf(SubSeq(s, offset + 10, offset + 12))
    IN  (hours * 3600 + minutes * 60 + seconds) * TicksPerSecond + millis * TicksPerMs

\* lines 233-237 with re.search in the place of re.match
parse_srt_timestamp_Search(timestamp) ==
    IF \E offset \in 0..Len(timestamp) : MatchAt(timestamp, offset)
    THEN FloatsOf(MatchValue(timestamp,
                             CHOOSE offset \in 0..Len(timestamp) :
                                 /\ MatchAt(timestamp, offset)
                                 /\ \A o \in 0..(offset - 1) : ~MatchAt(timestamp, o)))
    ELSE {0}

\* lines 224-238: re.match tries the pattern at the start of the string
\* only, and does not look at what follows the match; the floats the sum of
\* line 236 can be
parse_srt_timestamp(timestamp) ==
    IF MatchAt(timestamp, 0) THEN FloatsOf(MatchValue(timestamp, 0)) ELSE {0}

\* srt_generator.py lines 134-142: the segments generate_srt emits a block
\* for, each with the index enumerate gives it, from segment idx on; a
\* segment whose text is blank is skipped
RECURSIVE SrtBlocks(_, _)
SrtBlocks(segments, idx) ==
    IF idx > Len(segments) THEN <<>>
    ELSE (IF strip(segments[idx].text) = <<>> THEN <<>>
          ELSE << [index |-> idx, start |-> segments[idx].start,
                   end |-> segments[idx].end, text |-> segments[idx].text] >>)
         \o SrtBlocks(segments, idx + 1)

\* lines 96-121 without the line of the timestamps
generate_segment_NoTimes(index, start, end, text, max_chars_per_line) ==
    Decimal(index) \o <<"\n">>
    \o join(<<"\n">>, wrap_text(text, max_chars_per_line)) \o <<"\n">>

\* lines 96-121: index line, timestamp line, wrapped text lines
generate_segment(index, start, end, text, max_chars_per_line) ==
    Decimal(index) \o <<"\n">>
    \o format_timestamp(start) \o <<" ", "-", "-", ">", " ">> \o format_timestamp(end)
    \o <<"\n">>
    \o join(<<"\n">>, wrap_text(text, max_chars_per_line)) \o <<"\n">>

\* lines 123-149: the emitted blocks joined by "\n"
generate_srt(segments, max_chars_per_line) ==
    LET blocks == SrtBlocks(segments, 1)
    IN  join(<<"\n">>,
             [k \in 1..Len(blocks) |->
                 generate_segment(blocks[k].index, blocks[k].start, blocks[k].end,
                                  blocks[k].text, max_chars_per_line)])

\* lines 179-184 clamping the last segment too (to its own start)
AdjustEnds_Last(segments, overlap_duration) ==
    [i \in 1..Len(segments) |->
        LET next_start == IF i < Len(segments) THEN segments[i + 1].start
                          ELSE segments[i].start
        IN  [segments[i] EXCEPT
               !.end = Min2(segments[i].end, next_start - overlap_duration)]]

\* lines 179-184: every segment but the last ends no later than
\* overlap_duration before the next one starts
AdjustEnds(segments, overlap_duration) ==
    [i \in 1..Len(segments) |->
        IF i < Len(segments)
        THEN [segments[i] EXCEPT
                !.end = Min2(segments[i].end, segments[i + 1].start - overlap_duration)]
        ELSE segments[i]]

\* lines 164-186
generate_with_overlapping(segments, overlap_duration, max_chars_per_line) ==
    generate_srt(AdjustEnds(segments, overlap_duration), max_chars_per_line)

(***************************************************************************)
(* main.py: AudioTranscriberApp.transcribe_file                            *)
(* Times are in seconds.  The temporary files are named as audio_loader.py *)
(* names them: the converted WAV, and one chunk file per group index.      *)
(***************************************************************************)
\* main.py line 86: group_regions(regions, max_group_duration=30.0)
PipelineGroupDuration == 30
\* vad.py line 130: max_gap=2.0
PipelineGap == 2
\* seconds per grid step of the regions the detector reports to the pipeline
GridSeconds == 3

WavFile == <<"audio_transcriber_temp.wav", 0>>
ChunkFile(i) == <<"transcriber_chunk_i.ogg", i>>

\* the region lists find_speech_regions hands to the pipeline
AppRegionLists ==
    { [k \in 1..Len(l) |-> <<GridSeconds * l[k][1], GridSeconds * l[k][2]>>] :
        l \in RegionLists(MaxRegions) }

\* transcriber.py lines 219-259: the validated segments of one answer of the
\* service, with the service's own chunk-relative start and end; a
\* bilingual text is "original\ntranslation"
SvcTexts == {<<>>, <<"h", "i">>, <<"h", "i", "\n", "y", "o">>}
SvcSegments ==
    { sg \in [start : 0..MaxSvcTime, end : 0..MaxSvcTime, text : SvcTexts] :
        sg.start < sg.end }
SvcAnswers == {<<>>} \cup { <<sg>> : sg \in SvcSegments }

\* main.py line 132: <font color="#808080"> and </font>
FontOpen ==
    <<"<", "f", "o", "n", "t", " ",
      "c", "o", "l", "o", "r", "=", "\"", "#", "8", "0", "8", "0", "8", "0", "\"", ">">>
FontClose == <<"<", "/", "f", "o", "n", "t", ">">>

\* main.py lines 119-132: shift a chunk's segment by the group's start and
\* label a bilingual text
AdjustSegment(segment, start_offset, is_bilingual) ==
    [start |-> segment.start + start_offset,
     end |-> segment.end + start_offset,
     text |-> IF is_bilingual /\ \E p \in 1..Len(segment.text) : segment.text[p] = "\n"
              THEN LET nl == CHOOSE p \in 1..Len(segment.text) :
                                 /\ segment.text[p] = "\n"
                                 /\ \A q \in 1..(p - 1) : segment.text[q] # "\n"
                       original == SubSeq(segment.text, 1, nl - 1)
                       translation == SubSeq(segment.text, nl + 1, Len(segment.text))
                   IN  FontOpen \o original \o FontClose \o <<"\n">> \o translation
              ELSE segment.text]

AppInit ==
    /\ \E b \in BOOLEAN :
          app = [pc |-> "load", is_bilingual |-> b, regions |-> <<>>, groups |-> <<>>,
                 i |-> 0, answers |-> <<>>, all_segments |-> <<>>, failed |-> {},
                 created |-> {}, removed |-> {}, ret |-> "", srt |-> <<>>]
    /\ vad = Idle
    /\ grp = Idle
    /\ asm = Idle
    /\ fmt = Idle
    /\ trn = Idle

\* lines 173-184: any exception ends the call with None
AppRaise(a) == [a EXCEPT !.pc = "returned", !.ret = "None"]

\* line 55: load_and_convert raises (FileNotFoundError, ValueError) or
\* writes the temporary WAV
AppLoad ==
    /\ app.pc = "load"
    /\ \/ app' = AppRaise(app)
       \/ app' = [app EXCEPT !.pc = "vad", !.created = @ \cup {WavFile}]
    /\ UNCHANGED <<vad, grp, asm, fmt, trn>>

\* lines 69-87: find_speech_regions raises or returns regions; no region
\* ends the call, otherwise the regions are grouped
AppDetect ==
    /\ app.pc = "vad"
    /\ \/ app' = AppRaise(app)
       \/ \E regions \in AppRegionLists :
            app' = IF regions = <<>>
                   THEN [app EXCEPT !.pc = "returned", !.ret = "None",
                                    !.removed = @ \cup {WavFile}]
                   ELSE [app EXCEPT !.pc = "chunk", !.regions = regions, !.i = 1,
                                    !.groups = group_regions(regions, PipelineGroupDuration,
                                                             PipelineGap)]
    /\ UNCHANGED <<vad, grp, asm, fmt, trn>>

\* lines 93-104: cut the group's audio and save it to a temporary file
\* (i is 1-based here, 0-based in the file name)
AppSaveChunk ==
    /\ app.pc = "chunk"
    /\ app.i <= Len(app.groups)
    /\ \/ app' = AppRaise(app)
       \/ app' = [app EXCEPT !.pc = "transcribe",
                             !.created = @ \cup {ChunkFile(app.i - 1)}]
    /\ UNCHANGED <<vad, grp, asm, fmt, trn>>

\* Faulty variant of AppTranscribe: a failed transcription ends the call.
AppTranscribe_Abort ==
    /\ app.pc = "transcribe"
    /\ \/ app' = AppRaise([app EXCEPT !.failed = @ \cup {app.i},
                                      !.answers = Append(@, <<>>),
                                      !.removed = @ \cup {ChunkFile(app.i - 1)}])
       \/ \E chunk_segments \in SvcAnswers :
            LET adjusted == [k \in 1..Len(chunk_segments) |->
                                AdjustSegment(chunk_segments[k], app.groups[app.i].start,
                                              app.is_bilingual)]
            IN  app' = [app EXCEPT
                          !.pc = "chunk", !.i = @ + 1,
                          !.answers = Append(@, adjusted),
                          !.all_segments = @ \o adjusted,
                          !.removed = @ \cup {ChunkFile(app.i - 1)}]
    /\ UNCHANGED <<vad, grp, asm, fmt, trn>>

\* lines 106-143: transcribe the chunk; a failure is printed and the loop
\* goes on; the chunk file is removed either way (answers: what each group
\* so far added to all_segments, nothing for a failed group)
AppTranscribe ==
    /\ app.pc = "transcribe"
    /\ \/ app' = [app EXCEPT !.pc = "chunk", !.i = @ + 1,
                             !.failed = @ \cup {app.i},
                             !.answers = Append(@, <<>>),
                             !.removed = @ \cup {ChunkFile(app.i - 1)}]
       \/ \E chunk_segments \in SvcAnswers :
            LET adjusted == [k \in 1..Len(chunk_segments) |->
                                AdjustSegment(chunk_segments[k], app.groups[app.i].start,
                                              app.is_bilingual)]
            IN  app' = [app EXCEPT
                          !.pc = "chunk", !.i = @ + 1,
                          !.answers = Append(@, adjusted),
                          !.all_segments = @ \o adjusted,
                          !.removed = @ \cup {ChunkFile(app.i - 1)}]
    /\ UNCHANGED <<vad, grp, asm, fmt, trn>>

\* lines 145-171: remove the temporary WAV, then write the subtitle file
\* (srt: the blocks of the document save_srt writes)
AppFinish ==
    /\ app.pc = "chunk"
    /\ app.i > Len(app.groups)
    /\ LET a == [app EXCEPT !.removed = @ \cup {WavFile}]
       IN  IF app.all_segments = <<>>
           THEN app' = AppRaise(a)
           ELSE \/ app' = AppRaise(a)
                \/ app' = [a EXCEPT !.pc = "returned", !.ret = "output",
                                    !.srt = SrtBlocks(app.all_segments, 1)]
    /\ UNCHANGED <<vad, grp, asm, fmt, trn>>

Next == AppLoad \/ AppDetect \/ AppSaveChunk \/ AppTranscribe \/ AppFinish

Spec == AppInit /\ [][Next]_vars

(***************************************************************************)
(* Properties of transcribe_file                                           *)
(***************************************************************************)
Range(f) == { f[x] : x \in DOMAIN f }

\* C1: every segment written to the subtitle file has its start and end
\* taken from a region detected by find_speech_regions; only its text comes
\* from the transcription service.
C1_TimestampsFromVad ==
    (app.pc = "returned" /\ app.ret = "output") =>
        \A k \in 1..Len(app.srt) :
            <<app.srt[k].start, app.srt[k].end>> \in Range(app.regions)

\* C22 as stated (CLEAN_TEMP_FILES true): whenever transcribe_file returns,
\* with the output path or with None after a failure at any step after the
\* WAV conversion, the removal of the temporary WAV and of every temporary
\* chunk file created during the call has been attempted.
C22_TempFilesRemoved ==
    app.pc = "returned" => app.created \subseteq app.removed

\* C28 as stated: an exception raised while transcribing one group does
\* not abort the run: every later group is still transcribed, the segments
\* of all successful groups are written to the subtitle file in group
\* order, and the call returns None only if no group produced a segment.
C28_FailedGroupSkipped ==
    (app.pc = "returned" /\ app.failed # {}) =>
        /\ Len(app.answers) = Len(app.groups)
        /\ app.ret = "None" => app.all_segments = <<>>
        /\ app.ret = "output" => app.srt = SrtBlocks(Flatten(app.answers), 1)

\* C28 amended: an exception raised while transcribing one group is caught
\* and adds no segment, and the loop goes on to the next group; a call that
\* returns the output path has attempted every group and has written the
\* segments of the successful groups, at least one, in group order.  (A call
\* returns None when no group produced a segment, and also when saving a
\* later chunk or writing the file raises.)
C28_FailedGroupSkippedUnlessAbort ==
    /\ \A k \in app.failed : app.i > k /\ app.answers[k] = <<>>
    /\ (app.pc = "returned" /\ app.ret = "output") =>
          /\ Len(app.answers) = Len(app.groups)
          /\ app.all_segments # <<>>
          /\ app.srt = SrtBlocks(Flatten(app.answers), 1)

\* a call that returned the output path after the transcription of one group
\* failed and a later group produced a segment
C28_Witness ==
    /\ app.pc = "returned"
    /\ app.ret = "output"
    /\ \E k \in app.failed : \E j \in (k + 1)..Len(app.answers) : app.answers[j] # <<>>

(***************************************************************************)
(* Specification of wrap_text: a text and a line limit are drawn, the      *)
(* function is applied.                                                    *)
(***************************************************************************)
MaxTextLen == 5
MaxLineChars == 3

TextAlphabet == {"a", "b", " ", "\n"}

\* "hello world foobar", and a text with a word longer than the limits
HelloWorldFoobar ==
    <<"h", "e", "l", "l", "o", " ", "w", "o", "r", "l", "d", " ",
      "f", "o", "o", "b", "a", "r">>
PackedAndLong == <<"a", " ", "b", "\n", "a", "a", "a", "a">>

WrapTexts == SeqsUpTo(TextAlphabet, MaxTextLen) \cup {HelloWorldFoobar, PackedAndLong}
WrapLimits == (1..MaxLineChars) \cup {10}

WrapInit ==
    /\ \E text \in WrapTexts, limit \in WrapLimits :
          fmt = [pc |-> "wrap", text |-> text, max_chars_per_line |-> limit,
                 lines |-> <<>>]
    /\ vad = Idle
    /\ grp = Idle
    /\ app = Idle
    /\ asm = Idle
    /\ trn = Idle

WrapCall ==
    /\ fmt.pc = "wrap"
    /\ fmt' = [fmt EXCEPT !.pc = "wrapped",
                          !.lines = wrap_text(fmt.text, fmt.max_chars_per_line)]
    /\ UNCHANGED <<vad, grp, app, asm, trn>>

WrapNext == WrapCall

SpecWrap == WrapInit /\ [][WrapNext]_vars

Wrapped == fmt.pc = "wrapped"

\* the words of a list of lines, in order
LineWords(lines) == Flatten([k \in 1..Len(lines) |-> split(lines[k])])

\* C17: for max_chars_per_line >= 1 every line wrap_text returns is at most
\* max_chars_per_line long or is a single word longer than the limit, and
\* the words of the lines in order are the words of the input in order, none
\* of them split; limit 10 and "hello world foobar" give "hello", "world",
\* "foobar".
C17_WrapKeepsWords ==
    Wrapped =>
        /\ \A k \in 1..Len(fmt.lines) :
              \/ Len(fmt.lines[k]) <= fmt.max_chars_per_line
              \/ split(fmt.lines[k]) = <<fmt.lines[k]>>
        /\ LineWords(fmt.lines) = split(fmt.text)
        /\ (fmt.text = HelloWorldFoobar /\ fmt.max_chars_per_line = 10) =>
              fmt.lines = << <<"h", "e", "l", "l", "o">>, <<"w", "o", "r", "l", "d">>,
                             <<"f", "o", "o", "b", "a", "r">> >>

\* a line packed with two words next to a line of one word over the limit
C17_Witness ==
    /\ Wrapped
    /\ \E k \in 1..Len(fmt.lines) : Len(split(fmt.lines[k])) >= 2
    /\ \E k \in 1..Len(fmt.lines) : Len(fmt.lines[k]) > fmt.max_chars_per_line

\* the example of the claim
C17_WitnessExample ==
    /\ Wrapped
    /\ fmt.text = HelloWorldFoobar
    /\ fmt.max_chars_per_line = 10
    /\ Len(fmt.lines) = 3

(***************************************************************************)
(* The segment assembler: vad.py regions_to_segments and main.py           *)
(* _distribute_texts.  A region is <<start, end>> in ticks, a text a       *)
(* sequence of characters, a segment [start, end, text].                   *)
(***************************************************************************)
\* Python round(num / den) for den > 0: the nearest integer, a tie going to
\* the even one
PyRound(num, den) ==
    LET q == num \div den
        r == num % den
    IN  IF 2 * r > den \/ (2 * r = den /\ q % 2 = 1) THEN q + 1 ELSE q

\* round(x, 3): the nearest millisecond
round3(x) == TicksPerMs * PyRound(x, TicksPerMs)

\* vad.py lines 189-195 where a blank text lets the later texts move up to
\* the earlier regions
RECURSIVE ZipSegments_Shift(_, _, _)
ZipSegments_Shift(regions, texts, i) ==
    IF i > Min2(Len(regions), Len(texts)) THEN <<>>
    ELSE IF strip(texts[i]) = <<>>
         THEN ZipSegments_Shift(regions,
                                SubSeq(texts, 1, i - 1) \o SubSeq(texts, i + 1, Len(texts)), i)
         ELSE << [start |-> round3(regions[i][1]), end |-> round3(regions[i][2]),
                  text |-> strip(texts[i])] >>
              \o ZipSegments_Shift(regions, texts, i + 1)

\* vad.py lines 189-195: the loop over zip(regions, texts), from pair i on
RECURSIVE ZipSegments(_, _, _)
ZipSegments(regions, texts, i) ==
    IF i > Min2(Len(regions), Len(texts)) THEN <<>>
    ELSE (IF strip(texts[i]) # <<>>
          THEN << [start |-> round3(regions[i][1]), end |-> round3(regions[i][2]),
                   text |-> strip(texts[i])] >>
          ELSE <<>>)
         \o ZipSegments(regions, texts, i + 1)

\* vad.py lines 177-196 giving every region a segment when there is no text
regions_to_segments_Synth(regions, texts) ==
    IF texts = <<>>
    THEN [k \in 1..Len(regions) |->
            [start |-> round3(regions[k][1]), end |-> round3(regions[k][2]),
             text |-> <<>>]]
    ELSE ZipSegments(regions, texts, 1)

\* vad.py lines 177-196
regions_to_segments(regions, texts) == ZipSegments(regions, texts, 1)

\* main.py line 203: the trimmed texts that are not blank
RECURSIVE StrippedTexts(_)
StrippedTexts(texts) ==
    IF texts = <<>> THEN <<>>
    ELSE (IF strip(Head(texts)) # <<>> THEN << strip(Head(texts)) >> ELSE <<>>)
         \o StrippedTexts(Tail(texts))

\* main.py line 208: sum(e - s for s, e in regions)
RECURSIVE SumDurations(_)
SumDurations(regions) ==
    IF regions = <<>> THEN 0
    ELSE (Head(regions)[2] - Head(regions)[1]) + SumDurations(Tail(regions))

\* main.py line 216 with one word for every region
word_count_One(n_words, region_dur, total) == 1

\* main.py lines 214-216: max(1, round(len(words) * proportion))
word_count(n_words, region_dur, total) ==
    LET rounded == PyRound(n_words * region_dur, total)
    IN  IF rounded >= 1 THEN rounded ELSE 1

\* main.py lines 213-220: one turn of the loop over the regions
DistributeStep(st, region, words, total) ==
    LET count == word_count(Len(words), region[2] - region[1], total)
        region_words == SubSeq(words, st.word_idx + 1,
                               Min2(st.word_idx + count, Len(words)))
    IN  [segments |-> IF region_words # <<>>
                      THEN Append(st.segments,
                                  [start |-> round3(region[1]), end |-> round3(region[2]),
                                   text |-> join(<<" ">>, region_words)])
                      ELSE st.segments,
         word_idx |-> st.word_idx + count]

RECURSIVE DistributeLoop(_, _, _, _, _)
DistributeLoop(st, regions, i, words, total) ==
    IF i > Len(regions) THEN st
    ELSE DistributeLoop(DistributeStep(st, regions[i], words, total),
                        regions, i + 1, words, total)

\* main.py lines 222-223 without the words left after the last region
DistributeRest_Drop(st, words) == st.segments

\* main.py lines 222-223: the words left over go to the last segment
DistributeRest(st, words) ==
    IF st.word_idx < Len(words) /\ st.segments # <<>>
    THEN [st.segments EXCEPT ![Len(st.segments)].text =
              @ \o <<" ">> \o join(<<" ">>, SubSeq(words, st.word_idx + 1, Len(words)))]
    ELSE st.segments

\* main.py lines 186-225
distribute_texts(regions, texts) ==
    IF texts = <<>> \/ regions = <<>> THEN <<>>
    ELSE LET words == split(join(<<" ">>, StrippedTexts(texts)))
             total == SumDurations(regions)
         IN  IF words = <<>> THEN <<>>
             ELSE IF total <= 0 THEN <<>>
             ELSE DistributeRest(
                      DistributeLoop([segments |-> <<>>, word_idx |-> 0],
                                     regions, 1, words, total),
                      words)

(***************************************************************************)
(* Specification of the segment assembler: a region list and a text list   *)
(* are drawn, then group_regions, regions_to_segments and                  *)
(* _distribute_texts are each applied to them.                             *)
(***************************************************************************)
MaxAsmTime == 2
MaxAsmRegions == 2
MaxAsmTexts == 2

\* region bounds, some of them between two milliseconds
AsmTimes == { 3 * g : g \in 0..MaxAsmTime }
AsmRegions == { r \in AsmTimes \X AsmTimes : r[1] <= r[2] }

\* the regions (0,1), (1,2), (2,3) in seconds
ThreeSeconds ==
    << <<0, TicksPerSecond>>, <<TicksPerSecond, 2 * TicksPerSecond>>,
       <<2 * TicksPerSecond, 3 * TicksPerSecond>> >>
\* the regions (0,3), (3,4) in seconds: a long region before a short one
LongShort ==
    << <<0, 3 * TicksPerSecond>>, <<3 * TicksPerSecond, 4 * TicksPerSecond>> >>
AsmRegionLists == SeqsUpTo(AsmRegions, MaxAsmRegions) \cup {ThreeSeconds, LongShort}

\* "", " ", "a", " b\n", "a b", "c\nd e" and "a b c d e f"
AsmTexts ==
    { <<>>, <<" ">>, <<"a">>, <<" ", "b", "\n">>, <<"a", " ", "b">>,
      <<"c", "\n", "d", " ", "e">> }
SixWords == <<"a", " ", "b", " ", "c", " ", "d", " ", "e", " ", "f">>
AsmTextLists == SeqsUpTo(AsmTexts, MaxAsmTexts) \cup { <<SixWords>> }

AsmInit ==
    /\ \E regions \in AsmRegionLists, texts \in AsmTextLists :
          asm = [pc |-> "call", regions |-> regions, texts |-> texts,
                 groups |-> <<>>, zipped |-> <<>>, distributed |-> <<>>]
    /\ vad = Idle
    /\ grp = Idle
    /\ app = Idle
    /\ fmt = Idle
    /\ trn = Idle

\* vad.py line 130: group_regions with its default max_group_duration=30.0
\* and max_gap=2.0
AsmGroup ==
    /\ asm.pc = "call"
    /\ asm' = [asm EXCEPT !.pc = "grouped",
                          !.groups = group_regions(asm.regions,
                                                   PipelineGroupDuration * TicksPerSecond,
                                                   PipelineGap * TicksPerSecond)]
    /\ UNCHANGED <<vad, grp, app, fmt, trn>>

AsmZip ==
    /\ asm.pc = "grouped"
    /\ asm' = [asm EXCEPT !.pc = "zipped",
                          !.zipped = regions_to_segments(asm.regions, asm.texts)]
    /\ UNCHANGED <<vad, grp, app, fmt, trn>>

AsmDistribute ==
    /\ asm.pc = "zipped"
    /\ asm' = [asm EXCEPT !.pc = "done",
                          !.distributed = distribute_texts(asm.regions, asm.texts)]
    /\ UNCHANGED <<vad, grp, app, fmt, trn>>

AsmNext == AsmGroup \/ AsmZip \/ AsmDistribute

SpecAsm == AsmInit /\ [][AsmNext]_vars

(***************************************************************************)
(* Properties of the segment assembler                                     *)
(***************************************************************************)
AsmDone == asm.pc = "done"

\* the words of a list of texts, in order
TextWords(texts) == Flatten([k \in 1..Len(texts) |-> split(texts[k])])

\* t is s without its leading and trailing whitespace, and is not empty
Trimmed(t, s) ==
    \E i \in 1..Len(s), j \in 1..Len(s) :
        /\ t = SubSeq(s, i, j)
        /\ s[i] \notin Whitespace
        /\ s[j] \notin Whitespace
        /\ \A k \in 1..Len(s) : (k < i \/ k > j) => s[k] \in Whitespace

Blank(s) == \A k \in 1..Len(s) : s[k] \in Whitespace

\* ms is the whole millisecond nearest to the time x
NearestMs(ms, x) ==
    /\ ms % TicksPerMs = 0
    /\ 2 * (ms - x) <= TicksPerMs
    /\ 2 * (x - ms) <= TicksPerMs

\* C11: on empty input the grouper and the assembler return an empty list:
\* group_regions([]) = [], regions_to_segments with no region or no text =
\* [], _distribute_texts with no region or no text = []; nothing is
\* synthesized.
C11_EmptyInEmptyOut ==
    AsmDone =>
        /\ asm.regions = <<>> => asm.groups = <<>>
        /\ (asm.regions = <<>> \/ asm.texts = <<>>) =>
              (asm.zipped = <<>> /\ asm.distributed = <<>>)

\* no region, and texts with words in them
C11_Witness ==
    /\ AsmDone
    /\ asm.regions = <<>>
    /\ TextWords(asm.texts) # <<>>

\* no text, and regions of positive duration
C11_WitnessNoText ==
    /\ AsmDone
    /\ asm.texts = <<>>
    /\ asm.regions # <<>>
    /\ SumDurations(asm.regions) > 0

\* the indices of the texts that are not blank
NonBlank(texts) == { i \in 1..Len(texts) : ~Blank(texts[i]) }

\* C12: with as many texts as regions, regions_to_segments returns, in input
\* order, exactly one segment for each index i whose text is not blank, with
\* start = round(region[i].start, 3), end = round(region[i].end, 3) and the
\* trimmed text[i]; a blank text gives no segment and does not shift the
\* pairing of the later regions and texts.
C12_ZipPairsByIndex ==
    (AsmDone /\ Len(asm.texts) = Len(asm.regions)) =>
        /\ Len(asm.zipped) = Cardinality(NonBlank(asm.texts))
        /\ \A i \in NonBlank(asm.texts) :
              LET seg == asm.zipped[Cardinality({ j \in NonBlank(asm.texts) : j <= i })]
              IN  /\ NearestMs(seg.start, asm.regions[i][1])
                  /\ NearestMs(seg.end, asm.regions[i][2])
                  /\ Trimmed(seg.text, asm.texts[i])

\* a blank text before a text with whitespace around it, on regions whose
\* bounds are not whole milliseconds
C12_Witness ==
    /\ AsmDone
    /\ Len(asm.texts) = 2
    /\ Len(asm.regions) = 2
    /\ Blank(asm.texts[1])
    /\ ~Blank(asm.texts[2])
    /\ strip(asm.texts[2]) # asm.texts[2]
    /\ asm.regions[1] # asm.regions[2]
    /\ asm.regions[2][1] % TicksPerMs # 0
    /\ Len(asm.zipped) = 1

\* C13: in _distribute_texts with at least one region, positive total
\* duration and at least one word, no word is dropped or duplicated: the
\* words of the segments' texts, in segment order, are the full word list in
\* its order (the words left after the last region are in the last segment).
C13_DistributeKeepsWords ==
    (/\ AsmDone
     /\ asm.regions # <<>>
     /\ SumDurations(asm.regions) > 0
     /\ TextWords(asm.texts) # <<>>) =>
        TextWords([k \in 1..Len(asm.distributed) |-> asm.distributed[k].text])
            = TextWords(asm.texts)

\* more words than the regions take by their share: the last segment gets
\* the rest
C13_Witness ==
    /\ AsmDone
    /\ Len(asm.regions) = 2
    /\ SumDurations(asm.regions) > 0
    /\ Len(asm.distributed) = 2
    /\ Len(TextWords(asm.texts)) = 4
    /\ Len(split(asm.distributed[1].text)) = 1
    /\ Len(split(asm.distributed[2].text)) = 3

\* fewer words than regions: the later regions get no segment
C13_WitnessFewWords ==
    /\ AsmDone
    /\ SumDurations(asm.regions) > 0
    /\ TextWords(asm.texts) # <<>>
    /\ Len(asm.distributed) < Len(asm.regions)

\* C24 as stated: _distribute_texts leaves a region without a segment only
\* when there are more regions than words: with regions of positive
\* duration and at least as many words as regions, every region gets a
\* segment of at least one word.
C24_EveryRegionGetsWords ==
    (/\ AsmDone
     /\ asm.regions # <<>>
     /\ \A k \in 1..Len(asm.regions) : asm.regions[k][1] < asm.regions[k][2]
     /\ Len(TextWords(asm.texts)) >= Len(asm.regions)) =>
        /\ Len(asm.distributed) = Len(asm.regions)
        /\ \A k \in 1..Len(asm.distributed) : split(asm.distributed[k].text) # <<>>

\* the regions all have the same positive duration
EqualRegions(regions) ==
    /\ regions # <<>>
    /\ \A k \in 1..Len(regions) :
          /\ regions[k][2] - regions[k][1] = regions[1][2] - regions[1][1]
          /\ regions[k][2] - regions[k][1] > 0

\* C14: in _distribute_texts, for k regions of equal positive duration and a
\* text of k*m words (m >= 1), each region receives exactly m consecutive
\* words in order; the regions (0,1), (1,2), (2,3) and "a b c d e f" give
\* "a b", "c d", "e f".
C14_EqualRegionsEqualShares ==
    (/\ AsmDone
     /\ EqualRegions(asm.regions)
     /\ TextWords(asm.texts) # <<>>
     /\ Len(TextWords(asm.texts)) % Len(asm.regions) = 0) =>
        LET words == TextWords(asm.texts)
            m == Len(words) \div Len(asm.regions)
        IN  /\ Len(asm.distributed) = Len(asm.regions)
            /\ \A k \in 1..Len(asm.regions) :
                  split(asm.distributed[k].text) = SubSeq(words, (k - 1) * m + 1, k * m)
            /\ (asm.regions = ThreeSeconds /\ asm.texts = <<SixWords>>) =>
                  /\ asm.distributed[1].text = <<"a", " ", "b">>
                  /\ asm.distributed[2].text = <<"c", " ", "d">>
                  /\ asm.distributed[3].text = <<"e", " ", "f">>

\* two equal regions and four words
C14_Witness ==
    /\ AsmDone
    /\ Len(asm.regions) = 2
    /\ EqualRegions(asm.regions)
    /\ Len(TextWords(asm.texts)) = 4

\* the example of the claim
C14_WitnessExample ==
    /\ AsmDone
    /\ asm.regions = ThreeSeconds
    /\ asm.texts = <<SixWords>>
    /\ Len(asm.distributed) = 3

(***************************************************************************)
(* Specification of the timestamp functions: either a time is drawn,       *)
(* formatted and the result parsed, or a string is drawn and parsed.       *)
(***************************************************************************)
MaxHours == 100

\* the float times from 0 to past 100 hours: the whole milliseconds that
\* are floats, the floats next to the others, and times between two
\* milliseconds
TimeInputs ==
    { t \in { ((h * 3600 + m * 60 + s) * 1000 + ms) * TicksPerMs + sub :
                h \in {0, 1, MaxHours - 1, MaxHours}, m \in {0, 1, 59}, s \in {0, 1, 59},
                ms \in {0, 4, 5, 500, 999}, sub \in 0..(TicksPerMs - 1) } :
        t % TicksPerMs = 0 => FloatsOf(t) = {t} }

\* strings of the form HH:MM:SS,mmm; the pattern does not bound the fields
StampFields ==
    { <<h, m, s, ms>> : h \in {0, 1, 99}, m \in {0, 59, 99}, s \in {0, 59},
                        ms \in {0, 1, 999} }
Stamp(f) ==
    ZeroPad(Decimal(f[1]), 2) \o <<":">> \o ZeroPad(Decimal(f[2]), 2) \o <<":">>
    \o ZeroPad(Decimal(f[3]), 2) \o <<",">> \o ZeroPad(Decimal(f[4]), 3)
Stamps == { Stamp(f) : f \in StampFields }

\* the strings one edit away from a stamp: a character replaced, removed or
\* added (in front, inside or at the end)
EditChars == {"x", "7", ":", ",", ".", " "}
Edits(s) ==
    { [s EXCEPT ![p] = c] : p \in 1..Len(s), c \in EditChars }
    \cup { SubSeq(s, 1, p - 1) \o SubSeq(s, p + 1, Len(s)) : p \in 1..Len(s) }
    \cup { SubSeq(s, 1, p) \o <<c>> \o SubSeq(s, p + 1, Len(s)) :
             p \in 0..Len(s), c \in EditChars }
ParseInputs == {<<>>} \cup Stamps \cup UNION { Edits(s) : s \in Stamps }

TimeInit ==
    /\ \/ \E t \in TimeInputs :
             fmt = [pc |-> "format", formatted |-> TRUE, seconds |-> t,
                    timestamp |-> <<>>, parsed |-> 0]
       \/ \E s \in ParseInputs :
             fmt = [pc |-> "parse", formatted |-> FALSE, seconds |-> 0,
                    timestamp |-> s, parsed |-> 0]
    /\ vad = Idle
    /\ grp = Idle
    /\ app = Idle
    /\ asm = Idle
    /\ trn = Idle

TimeFormat ==
    /\ fmt.pc = "format"
    /\ fmt' = [fmt EXCEPT !.pc = "parse", !.timestamp = format_timestamp(fmt.seconds)]
    /\ UNCHANGED <<vad, grp, app, asm, trn>>

TimeParse ==
    /\ fmt.pc = "parse"
    /\ \E parsed \in parse_srt_timestamp(fmt.timestamp) :
          fmt' = [fmt EXCEPT !.pc = "parsed", !.parsed = parsed]
    /\ UNCHANGED <<vad, grp, app, asm, trn>>

TimeNext == TimeFormat \/ TimeParse

SpecTime == TimeInit /\ [][TimeNext]_vars

(***************************************************************************)
(* Properties of the timestamp functions                                   *)
(***************************************************************************)
\* C15: for every t in [0, 359999.999] seconds,
\* parse_srt_timestamp(format_timestamp(t)) differs from t by less than
\* 0.001 s, and is t when t is a whole number of milliseconds.
C15_TimestampRoundTrip ==
    (/\ fmt.pc = "parsed"
     /\ fmt.formatted
     /\ fmt.seconds >= 0
     /\ fmt.seconds <= 359999999 * TicksPerMs) =>
        /\ fmt.parsed - fmt.seconds < TicksPerMs
        /\ fmt.seconds - fmt.parsed < TicksPerMs
        /\ fmt.seconds % TicksPerMs = 0 => fmt.parsed = fmt.seconds

\* s is two digits, ":", two digits, ":", two digits, ",", three digits
WellFormed(s) ==
    /\ Len(s) = 12
    /\ \A p \in {1, 2, 4, 5, 7, 8, 10, 11, 12} : IsDigit(s[p])
    /\ s[3] = ":"
    /\ s[6] = ":"
    /\ s[9] = ","

\* HH*3600 + MM*60 + SS + mmm/1000 of a well-formed s, in ticks
StampValue(s) ==
    LET two(p) == 10 * DigitValue(s[p]) + DigitValue(s[p + 1])
    IN  (two(1) * 3600 + two(4) * 60 + two(7)) * TicksPerSecond
        + (100 * DigitValue(s[10]) + two(11)) * TicksPerMs

\* C16 as stated: parse_srt_timestamp accepts exactly HH:MM:SS,mmm; for a
\* string of that form it returns HH*3600 + MM*60 + SS + mmm/1000 (as a
\* float) and for every other string, a well-formed timestamp followed by
\* extra characters included, it returns 0.0.
C16_ExactFormatOnly ==
    fmt.pc = "parsed" =>
        IF WellFormed(fmt.timestamp)
        THEN fmt.parsed \in FloatsOf(StampValue(fmt.timestamp))
        ELSE fmt.parsed = 0

\* C16: parse_srt_timestamp returns HH*3600 + MM*60 + SS + mmm/1000 (as a
\* float) for every string that begins with HH:MM:SS,mmm, whatever follows
\* it, and 0.0 for every other string (an hours field of more than two
\* digits included).
C16_PrefixFormat ==
    fmt.pc = "parsed" =>
        IF Len(fmt.timestamp) >= 12 /\ WellFormed(SubSeq(fmt.timestamp, 1, 12))
        THEN fmt.parsed \in FloatsOf(StampValue(SubSeq(fmt.timestamp, 1, 12)))
        ELSE fmt.parsed = 0

\* a well-formed timestamp with a character after it, parsed to its value
C16_Witness ==
    /\ fmt.pc = "parsed"
    /\ ~fmt.formatted
    /\ Len(fmt.timestamp) = 13
    /\ WellFormed(SubSeq(fmt.timestamp, 1, 12))
    /\ fmt.parsed > 0

\* an hours field of three digits, parsed to 0.0
C16_WitnessLongHours ==
    /\ fmt.pc = "parsed"
    /\ ~fmt.formatted
    /\ Len(fmt.timestamp) = 13
    /\ \A p \in 1..3 : IsDigit(fmt.timestamp[p])
    /\ WellFormed(SubSeq(fmt.timestamp, 2, 13))
    /\ StampValue(SubSeq(fmt.timestamp, 2, 13)) > 0
    /\ fmt.parsed = 0

(***************************************************************************)
(* Specification of the document functions: a segment list is drawn, then  *)
(* generate_srt and generate_with_overlapping are applied to it.           *)
(***************************************************************************)
MaxSrtTime == 2
MaxSegments == 2
\* srt_generator.py line 12: max_chars_per_line = 40
DefaultMaxChars == 40

\* segment times on a grid of half seconds
SrtTimes == { g * (TicksPerSecond \div 2) : g \in 0..MaxSrtTime }
\* " ", "a", "a b"
SrtTexts == { <<" ">>, <<"a">>, <<"a", " ", "b">> }
SrtSegments ==
    { sg \in [start : SrtTimes, end : SrtTimes, text : SrtTexts] : sg.start <= sg.end }

\* the segment {0.0, 2.5, "Hello there"}
HelloThere ==
    [start |-> 0, end |-> 5 * (TicksPerSecond \div 2),
     text |-> <<"H", "e", "l", "l", "o", " ", "t", "h", "e", "r", "e">>]
SrtSegmentLists == SeqsUpTo(SrtSegments, MaxSegments) \cup { <<HelloThere>> }

\* line 165: overlap_duration = 0.5, and no overlap
SrtOverlaps == {0, TicksPerSecond \div 2}

SrtInit ==
    /\ \E segments \in SrtSegmentLists, limit \in {1, DefaultMaxChars},
          overlap \in SrtOverlaps :
          fmt = [pc |-> "call", segments |-> segments, max_chars_per_line |-> limit,
                 overlap_duration |-> overlap, document |-> <<>>, overlapped |-> <<>>]
    /\ vad = Idle
    /\ grp = Idle
    /\ app = Idle
    /\ asm = Idle
    /\ trn = Idle

SrtGenerate ==
    /\ fmt.pc = "call"
    /\ fmt' = [fmt EXCEPT !.pc = "generated",
                          !.document = generate_srt(fmt.segments, fmt.max_chars_per_line)]
    /\ UNCHANGED <<vad, grp, app, asm, trn>>

SrtOverlap ==
    /\ fmt.pc = "generated"
    /\ fmt' = [fmt EXCEPT !.pc = "done",
                          !.overlapped =
                              generate_with_overlapping(fmt.segments, fmt.overlap_duration,
                                                        fmt.max_chars_per_line)]
    /\ UNCHANGED <<vad, grp, app, asm, trn>>

SrtNext == SrtGenerate \/ SrtOverlap

SpecSrt == SrtInit /\ [][SrtNext]_vars

(***************************************************************************)
(* Properties of the document functions                                    *)
(***************************************************************************)
SrtDone == fmt.pc = "done"

\* the runs of non-empty lines in a list of lines, from line i on, with
\* block the run read so far
RECURSIVE LineRuns(_, _, _)
LineRuns(lines, i, block) ==
    IF i > Len(lines) THEN (IF block = <<>> THEN <<>> ELSE <<block>>)
    ELSE IF lines[i] = <<>>
         THEN (IF block = <<>> THEN <<>> ELSE <<block>>) \o LineRuns(lines, i + 1, <<>>)
         ELSE LineRuns(lines, i + 1, Append(block, lines[i]))

\* the blocks of a document, each the list of its lines
DocBlocks(document) == LineRuns(split_sep(document, "\n"), 1, <<>>)

\* blocks written out, each line ended by a newline, one blank line between
\* two blocks
Written(blocks) ==
    join(<<"\n">>, [k \in 1..Len(blocks) |-> join(<<"\n">>, blocks[k]) \o <<"\n">>])

\* the indices of the segments whose text is not blank
Emitted(segments) == { i \in 1..Len(segments) : ~Blank(segments[i].text) }

\* C18: in the document of generate_srt the k-th emitted block carries the
\* index k: the indices are contiguous from 1 and a skipped segment does
\* not consume one.
C18_ContiguousIndices ==
    SrtDone =>
        \A k \in 1..Len(DocBlocks(fmt.document)) :
            DocBlocks(fmt.document)[k][1] = Decimal(k)

\* C19: generate_srt emits exactly one block for each segment whose text is
\* not blank, in input order, and none for a blank one; a block is an index
\* line, the line "start --> end" and the wrapped text lines, and one blank
\* line separates two blocks; the segment {0.0, 2.5, "Hello there"} gives
\* "1\n00:00:00,000 --> 00:00:02,500\nHello there\n".
C19_OneBlockPerSegment ==
    SrtDone =>
        LET blocks == DocBlocks(fmt.document)
            emitted == Emitted(fmt.segments)
        IN  /\ Len(blocks) = Cardinality(emitted)
            /\ fmt.document = Written(blocks)
            /\ \A i \in emitted :
                  LET block == blocks[Cardinality({ j \in emitted : j <= i })]
                      sg == fmt.segments[i]
                  IN  /\ Len(block) >= 3
                      /\ \A p \in 1..Len(block[1]) : IsDigit(block[1][p])
                      /\ block[2] = format_timestamp(sg.start)
                                    \o <<" ", "-", "-", ">", " ">>
                                    \o format_timestamp(sg.end)
                      /\ SubSeq(block, 3, Len(block))
                            = wrap_text(sg.text, fmt.max_chars_per_line)
            /\ (fmt.segments = <<HelloThere>> /\ fmt.max_chars_per_line = DefaultMaxChars) =>
                  fmt.document =
                      <<"1", "\n", "0", "0", ":", "0", "0", ":", "0", "0", ",", "0", "0", "0",
                        " ", "-", "-", ">", " ",
                        "0", "0", ":", "0", "0", ":", "0", "2", ",", "5", "0", "0", "\n",
                        "H", "e", "l", "l", "o", " ", "t", "h", "e", "r", "e", "\n">>

\* two blocks, one of them with its text on two lines
C19_Witness ==
    /\ SrtDone
    /\ Len(fmt.segments) = 2
    /\ Len(DocBlocks(fmt.document)) = 2
    /\ \E k \in 1..2 : Len(DocBlocks(fmt.document)[k]) = 4

\* a blank segment in front of an emitted one
C19_WitnessSkipped ==
    /\ SrtDone
    /\ Len(fmt.segments) = 2
    /\ fmt.segments[1].text = <<" ">>
    /\ Len(DocBlocks(fmt.document)) = 1

\* the example of the claim
C19_WitnessExample ==
    /\ SrtDone
    /\ fmt.segments = <<HelloThere>>
    /\ fmt.max_chars_per_line = DefaultMaxChars
    /\ Len(DocBlocks(fmt.document)) = 1

\* the segment list with the end of every segment but the last replaced by
\* min(end, next start - d)
Clamped(segments, d) ==
    [i \in 1..Len(segments) |->
        [start |-> segments[i].start,
         end |-> IF i = Len(segments) \/ segments[i].end <= segments[i + 1].start - d
                 THEN segments[i].end
                 ELSE segments[i + 1].start - d,
         text |-> segments[i].text]]

\* C20: generate_with_overlapping(segments, d) produces the document that
\* generate_srt produces for the segment list in which every segment but
\* the last has its end replaced by min(end, next segment's start - d) and
\* the last segment is unchanged.
C20_OverlappingIsClampedSrt ==
    SrtDone =>
        fmt.overlapped = generate_srt(Clamped(fmt.segments, fmt.overlap_duration),
                                      fmt.max_chars_per_line)

\* two emitted segments, the first one ending later than overlap_duration
\* before the second starts: its end is moved and the document differs
C20_Witness ==
    /\ SrtDone
    /\ Len(fmt.segments) = 2
    /\ Emitted(fmt.segments) = {1, 2}
    /\ fmt.overlap_duration > 0
    /\ fmt.segments[1].end > fmt.segments[2].start - fmt.overlap_duration
    /\ fmt.segments[2].end > fmt.segments[2].start
    /\ fmt.overlapped # fmt.document


(***************************************************************************)
(* vad.py: _rms_energy, and the call of it in find_speech_regions.  A      *)
(* chunk is a sequence of bytes 0..255; an energy sqrt(sum_sq / count) is  *)
(* kept as the pair <<sum_sq, count>>, the value 0 as <<0, 1>>.            *)
(***************************************************************************)
MaxChannels == 2      \* n_channels 1..MaxChannels
MaxChunkFrames == 2   \* a chunk holds 1..MaxChunkFrames frames

Abs(x) == IF x < 0 THEN -x ELSE x

RECURSIVE Pow256(_)
Pow256(k) == IF k = 0 THEN 1 ELSE 256 * Pow256(k - 1)

\* the bytes wave.readframes returns for one sample: little-endian two's
\* complement for 2 and 4 bytes, unsigned with offset 128 for 1 byte
SampleBytes(sample, sample_width) ==
    IF sample_width = 1 THEN <<sample + 128>>
    ELSE [k \in 1..sample_width |-> (sample \div Pow256(k - 1)) % 256]

\* struct.unpack of one little-endian signed integer of Len(b) bytes
RECURSIVE LittleEndian(_)
LittleEndian(b) ==
    IF Len(b) = 1 THEN (IF b[1] >= 128 THEN b[1] - 256 ELSE b[1])
    ELSE b[1] + 256 * LittleEndian(Tail(b))

\* lines 31, 35: struct.unpack("<%dh" / "<%di"), one integer per `width`
\* bytes
Unpack(data, width) ==
    [k \in 1..(Len(data) \div width) |->
        LittleEndian(SubSeq(data, (k - 1) * width + 1, k * width))]

\* lines 30-37: the samples decoded for a width, None for a width the
\* function does not know
Samples(data, width) ==
    IF width = 2 \/ width = 4 THEN <<Unpack(data, width)>>
    ELSE IF width = 1 THEN <<[k \in 1..Len(data) |-> data[k] - 128]>>
    ELSE None

RECURSIVE SumSquares(_)
SumSquares(s) ==
    IF s = <<>> THEN 0 ELSE Head(s) * Head(s) + SumSquares(Tail(s))

\* lines 28-45
rms_energy(data, sample_width) ==
    LET samples == Samples(data, sample_width)
    IN  IF samples = None THEN <<0, 1>>
        ELSE IF samples[1] = <<>> THEN <<0, 1>>
        ELSE <<SumSquares(samples[1]), Len(samples[1])>>

\* line 93: the energy find_speech_regions records for a chunk
chunk_energy(chunk, sample_width, n_channels) ==
    rms_energy(chunk, sample_width * n_channels)

(***************************************************************************)
(* Specification of the energy of one chunk: a stream format and the       *)
(* frames of a chunk are drawn, the chunk is analysed as                   *)
(* find_speech_regions analyses it.                                        *)
(***************************************************************************)
\* sample values of a stream: around zero, and the lowest 8-bit sample
SampleValues(sample_width) ==
    IF sample_width = 1 THEN {-128, 0, 1} ELSE {-1, 0, 1}

\* the bytes of a list of frames, each frame one sample per channel
RECURSIVE FrameBytes(_, _)
FrameBytes(frames, sample_width) ==
    IF frames = <<>> THEN <<>>
    ELSE Flatten([c \in 1..Len(Head(frames)) |->
                     SampleBytes(Head(frames)[c], sample_width)])
         \o FrameBytes(Tail(frames), sample_width)

RECURSIVE SumAbs(_)
SumAbs(s) ==
    IF s = <<>> THEN 0 ELSE Abs(Head(s)) + SumAbs(Tail(s))

\* the chunks whose sum of squares stays within the 32-bit integers of the
\* model whichever width they are decoded with
SmallEnough(data, width) ==
    LET samples == Samples(data, width)
    IN  IF samples = None THEN TRUE ELSE SumAbs(samples[1]) <= 10000

RmsInit ==
    /\ \E sample_width \in {1, 2, 4}, n_channels \in 1..MaxChannels :
       \E n \in 1..MaxChunkFrames :
       \E frames \in [1..n -> [1..n_channels -> SampleValues(sample_width)]] :
          /\ SmallEnough(FrameBytes(frames, sample_width), sample_width * n_channels)
          /\ vad = [pc |-> "read", sample_width |-> sample_width,
                    n_channels |-> n_channels,
                    chunk |-> FrameBytes(frames, sample_width),
                    energy |-> <<0, 1>>]
    /\ grp = Idle
    /\ app = Idle
    /\ asm = Idle
    /\ fmt = Idle
    /\ trn = Idle

\* lines 90-93: one iteration of the energy loop
RmsCall ==
    /\ vad.pc = "read"
    /\ vad' = [vad EXCEPT !.pc = "analysed",
                          !.energy = chunk_energy(vad.chunk, vad.sample_width,
                                                  vad.n_channels)]
    /\ UNCHANGED <<grp, app, asm, fmt, trn>>

RmsNext == RmsCall

SpecRms == RmsInit /\ [][RmsNext]_vars

\* the energies sqrt(a[1] / a[2]) and sqrt(b[1] / b[2]) are equal
SameEnergy(a, b) == a[1] * b[2] = b[1] * a[2]

\* C25 as stated: for a stream of several channels the energy of a chunk is
\* sqrt(mean(sample^2)) over the samples obtained by decoding the chunk's
\* bytes as a flat stream of samples of the stream's own sample width (1, 2
\* or 4 bytes), whatever the channel count.
C25_PerSampleWidth ==
    (vad.pc = "analysed" /\ vad.n_channels >= 2) =>
        LET samples == Samples(vad.chunk, vad.sample_width)[1]
        IN  SameEnergy(vad.energy, <<SumSquares(samples), Len(samples)>>)


(***************************************************************************)
(* Effects of group_regions, regions_to_segments, generate_srt and         *)
(* generate_with_overlapping on their caller's objects.  The caller holds  *)
(* a region list, a text list, a segment list and an SRTGenerator; the     *)
(* segment list holds references into `dicts`, the dict objects of the     *)
(* heap, so two entries of the list can be the same dict.  A function      *)
(* that creates a dict appends it to the heap.                             *)
(***************************************************************************)
\* Faulty variant of dict_copy: no copy is made, the same dict is returned.
dict_copy_Alias(dicts, ref) == [dicts |-> dicts, ref |-> ref]

\* srt_generator.py line 179: seg_copy = segment.copy()
dict_copy(dicts, ref) == [dicts |-> Append(dicts, dicts[ref]), ref |-> Len(dicts) + 1]

\* srt_generator.py lines 177-183: the loop of generate_with_overlapping
\* over the segment list, on the heap
RECURSIVE OverlapLoop(_, _, _, _, _)
OverlapLoop(dicts, segments, i, adjusted_segments, overlap_duration) ==
    IF i > Len(segments) THEN [dicts |-> dicts, adjusted_segments |-> adjusted_segments]
    ELSE LET seg_copy == dict_copy(dicts, segments[i])
             written ==
                 IF i < Len(segments)
                 THEN [seg_copy.dicts EXCEPT ![seg_copy.ref].end =
                          Min2(@, seg_copy.dicts[segments[i + 1]].start - overlap_duration)]
                 ELSE seg_copy.dicts
         IN  OverlapLoop(written, segments, i + 1,
                         Append(adjusted_segments, seg_copy.ref), overlap_duration)

\* the dicts a list of references points to
Deref(dicts, refs) == [k \in 1..Len(refs) |-> dicts[refs[k]]]

\* the segment dicts, region lists and text lists the caller holds
EffSegments == { sg \in SrtSegments : sg.text = <<"a">> }
EffDicts == SeqsUpTo(EffSegments, MaxSegments)
EffTextLists == SeqsUpTo({ <<" ">>, <<"a">> }, MaxAsmTexts)
EffFunctions ==
    {"group_regions", "regions_to_segments", "generate_srt", "generate_with_overlapping"}

\* the objects a call of function fn is given; the others stay empty
EffInputs(fn) ==
    { in \in [regions : IF fn \in {"group_regions", "regions_to_segments"}
                        THEN AsmRegionLists ELSE {<<>>},
              texts : IF fn = "regions_to_segments" THEN EffTextLists ELSE {<<>>},
              dicts : IF fn \in {"generate_srt", "generate_with_overlapping"}
                      THEN EffDicts ELSE {<<>>},
              segments : SeqsUpTo(1..MaxSegments, MaxSegments),
              self : [max_chars_per_line : {1, DefaultMaxChars},
                      max_lines_per_block : {2}]] :
        \A k \in 1..Len(in.segments) : in.segments[k] <= Len(in.dicts) }

EffInit ==
    /\ \E fn \in EffFunctions : \E in \in EffInputs(fn) :
       \E overlap \in (IF fn = "generate_with_overlapping" THEN SrtOverlaps ELSE {0}) :
          asm = [pc |-> "call", fn |-> fn, regions |-> in.regions, texts |-> in.texts,
                 dicts |-> in.dicts, segments |-> in.segments, self |-> in.self,
                 overlap_duration |-> overlap, before |-> in,
                 groups |-> <<>>, returned |-> <<>>, document |-> <<>>]
    /\ vad = Idle
    /\ grp = Idle
    /\ app = Idle
    /\ fmt = Idle
    /\ trn = Idle

\* vad.py lines 130-174: the groups are new dicts holding new lists
EffGroup ==
    /\ asm.pc = "call"
    /\ asm.fn = "group_regions"
    /\ asm' = [asm EXCEPT !.pc = "returned",
                          !.groups = group_regions(asm.regions,
                                                   PipelineGroupDuration * TicksPerSecond,
                                                   PipelineGap * TicksPerSecond)]
    /\ UNCHANGED <<vad, grp, app, fmt, trn>>

\* vad.py lines 177-196: the segments are new dicts in a new list
EffZip ==
    /\ asm.pc = "call"
    /\ asm.fn = "regions_to_segments"
    /\ LET created == regions_to_segments(asm.regions, asm.texts)
       IN  asm' = [asm EXCEPT !.pc = "returned",
                              !.dicts = @ \o created,
                              !.returned = [k \in 1..Len(created) |-> Len(asm.dicts) + k]]
    /\ UNCHANGED <<vad, grp, app, fmt, trn>>

\* srt_generator.py lines 123-149: the segments are read
EffGenerate ==
    /\ asm.pc = "call"
    /\ asm.fn = "generate_srt"
    /\ asm' = [asm EXCEPT !.pc = "returned",
                          !.document = generate_srt(Deref(asm.dicts, asm.segments),
                                                    asm.self.max_chars_per_line)]
    /\ UNCHANGED <<vad, grp, app, fmt, trn>>

\* srt_generator.py lines 164-186: the ends are written into copies
EffOverlap ==
    /\ asm.pc = "call"
    /\ asm.fn = "generate_with_overlapping"
    /\ LET done == OverlapLoop(asm.dicts, asm.segments, 1, <<>>, asm.overlap_duration)
       IN  asm' = [asm EXCEPT !.pc = "returned",
                              !.dicts = done.dicts,
                              !.returned = done.adjusted_segments,
                              !.document = generate_srt(
                                               Deref(done.dicts, done.adjusted_segments),
                                               asm.self.max_chars_per_line)]
    /\ UNCHANGED <<vad, grp, app, fmt, trn>>

EffNext == EffGroup \/ EffZip \/ EffGenerate \/ EffOverlap

SpecEffect == EffInit /\ [][EffNext]_vars

\* C21: group_regions, regions_to_segments, generate_srt and
\* generate_with_overlapping change nothing their caller holds: after the
\* call the region list, the text list, the segment list and every segment
\* dict are as before the call, and so are max_chars_per_line and
\* max_lines_per_block of the generator.
C21_InputsUnchanged ==
    asm.pc = "returned" =>
        /\ asm.regions = asm.before.regions
        /\ asm.texts = asm.before.texts
        /\ asm.segments = asm.before.segments
        /\ \A ref \in 1..Len(asm.before.dicts) : asm.dicts[ref] = asm.before.dicts[ref]
        /\ asm.self = asm.before.self

\* generate_with_overlapping returned after it shortened the copy of a
\* segment that is in the list twice
C21_Witness ==
    /\ asm.pc = "returned"
    /\ asm.fn = "generate_with_overlapping"
    /\ Len(asm.segments) = 2
    /\ asm.segments[1] = asm.segments[2]
    /\ asm.dicts[asm.returned[1]].end < asm.dicts[asm.segments[1]].end

\* regions_to_segments returned new segment dicts
C21_WitnessCreated ==
    /\ asm.pc = "returned"
    /\ asm.fn = "regions_to_segments"
    /\ asm.returned # <<>>
    /\ asm.regions # <<>>


(***************************************************************************)
(* main.py: AudioTranscriberApp.watch_folder.  A file is the pair of its   *)
(* stem and its extension; files arrive in the watched directory and       *)
(* leave it while the loop runs.                                           *)
(***************************************************************************)
\* the files that can be in the watched directory
WatchFiles == { <<"a", ".mp3">>, <<"b", ".wav">>, <<"notes", ".txt">> }

\* WATCH_EXTENSIONS.split(","): two extensions, and one extension listed
\* twice
WatchExtensionLists == { <<".mp3", ".wav">>, <<".mp3", ".mp3">> }

WatchInit ==
    /\ \E extensions \in WatchExtensionLists :
          app = [pc |-> "scan", extensions |-> extensions, ext |-> 1, dir |-> {},
                 pending |-> {}, processed_files |-> {},
                 calls |-> [f \in WatchFiles |-> 0],
                 results |-> [f \in WatchFiles |-> ""], interrupted |-> FALSE]
    /\ vad = Idle
    /\ grp = Idle
    /\ asm = Idle
    /\ fmt = Idle
    /\ trn = Idle

\* line 321: watch_path.glob(f"*{ext}") lists the directory
WatchGlob ==
    /\ app.pc = "scan"
    /\ app' = [app EXCEPT
                 !.pc = "files",
                 !.pending = { f \in app.dir : f[2] = app.extensions[app.ext] }]
    /\ UNCHANGED <<vad, grp, asm, fmt, trn>>

\* Faulty variant of WatchFile: a file is marked as processed only when
\* transcribe_file returned an output path.
WatchFile_MarkOnSuccess ==
    /\ app.pc = "files"
    /\ \E f \in app.pending :
          IF f \in app.processed_files
          THEN app' = [app EXCEPT !.pending = @ \ {f}]
          ELSE \/ \E result \in (IF f \in app.dir THEN {"output", "None"} ELSE {"None"}) :
                    app' = [app EXCEPT
                              !.pending = @ \ {f},
                              !.calls[f] = @ + 1,
                              !.results[f] = result,
                              !.processed_files =
                                  IF result = "output" THEN @ \cup {f} ELSE @]
               \/ app' = [app EXCEPT !.pc = "stopped", !.calls[f] = @ + 1,
                                     !.interrupted = TRUE]
    /\ UNCHANGED <<vad, grp, asm, fmt, trn>>

\* lines 321-340: one file of the listing: a path not yet in
\* processed_files is transcribed (transcribe_file returns the output path,
\* or None after a failure) and then added to processed_files; Ctrl+C
\* during the call leaves the loop
WatchFile ==
    /\ app.pc = "files"
    /\ \E f \in app.pending :
          IF f \in app.processed_files
          THEN app' = [app EXCEPT !.pending = @ \ {f}]
          ELSE \/ \E result \in (IF f \in app.dir THEN {"output", "None"} ELSE {"None"}) :
                    app' = [app EXCEPT
                              !.pending = @ \ {f},
                              !.calls[f] = @ + 1,
                              !.results[f] = result,
                              !.processed_files = @ \cup {f}]
               \/ app' = [app EXCEPT !.pc = "stopped", !.calls[f] = @ + 1,
                                     !.interrupted = TRUE]
    /\ UNCHANGED <<vad, grp, asm, fmt, trn>>

\* lines 319-321: the listing of one extension is exhausted
WatchNextExtension ==
    /\ app.pc = "files"
    /\ app.pending = {}
    /\ app' = [app EXCEPT
                 !.ext = @ + 1,
                 !.pc = IF app.ext + 1 > Len(app.extensions) THEN "sleep" ELSE "scan"]
    /\ UNCHANGED <<vad, grp, asm, fmt, trn>>

\* lines 314 and 343: time.sleep(WATCH_INTERVAL), then the next scan
WatchSleep ==
    /\ app.pc = "sleep"
    /\ app' = [app EXCEPT !.pc = "scan", !.ext = 1]
    /\ UNCHANGED <<vad, grp, asm, fmt, trn>>

\* lines 345-346: Ctrl+C between two files
WatchInterrupt ==
    /\ app.pc \in {"scan", "files", "sleep"}
    /\ app' = [app EXCEPT !.pc = "stopped", !.interrupted = TRUE]
    /\ UNCHANGED <<vad, grp, asm, fmt, trn>>

\* a file is put into the watched directory
WatchArrive ==
    /\ app.pc \in {"scan", "files", "sleep"}
    /\ \E f \in WatchFiles \ app.dir : app' = [app EXCEPT !.dir = @ \cup {f}]
    /\ UNCHANGED <<vad, grp, asm, fmt, trn>>

\* a file is taken out of the watched directory
WatchRemove ==
    /\ app.pc \in {"scan", "files", "sleep"}
    /\ \E f \in app.dir : app' = [app EXCEPT !.dir = @ \ {f}]
    /\ UNCHANGED <<vad, grp, asm, fmt, trn>>

WatchNext ==
    \/ WatchGlob \/ WatchFile \/ WatchNextExtension \/ WatchSleep
    \/ WatchInterrupt \/ WatchArrive \/ WatchRemove

SpecWatch == WatchInit /\ [][WatchNext]_vars

\* C29: during one watch_folder session transcribe_file is called at most
\* once for a file path; a file is in processed_files once its first
\* attempt has returned, whether it succeeded or failed, and is not tried
\* again; a failed file never ends the loop (only Ctrl+C does).
C29_OncePerPath ==
    /\ \A f \in WatchFiles : app.calls[f] <= 1
    /\ app.pc # "stopped" =>
          app.processed_files = { f \in WatchFiles : app.calls[f] = 1 }
    /\ \A f \in WatchFiles : app.results[f] # "" => f \in app.processed_files
    /\ app.pc = "stopped" => app.interrupted

\* a later scan lists a file again whose only attempt failed, after another
\* file was transcribed
C29_Witness ==
    /\ app.pc = "files"
    /\ \E f \in app.pending :
          /\ f \in app.processed_files
          /\ app.results[f] = "None"
    /\ \E g \in WatchFiles : app.results[g] = "output"

\* a file matched by two entries of the extension list in one scan
C29_WitnessListedTwice ==
    /\ app.pc = "files"
    /\ app.ext = 2
    /\ app.extensions[1] = app.extensions[2]
    /\ \E f \in app.pending : app.calls[f] = 1


(***************************************************************************)
(* transcriber.py: the ProgressIndicator threads of Transcriber.transcribe *)
(* and Transcriber.transcribe_text_only.  The caller and every spinner     *)
(* thread take their steps in any order.  A thread is its stop event and   *)
(* whether it still runs; `progress` is the thread of the indicator the    *)
(* call holds.                                                             *)
(***************************************************************************)
MaxCalls == 2         \* calls of the transcriber, one after the other

TrnMethods == {"transcribe", "transcribe_text_only"}

\* lines 23-26: ProgressIndicator.start
StartSpinner(t) ==
    [t EXCEPT !.threads = Append(@, [stop |-> FALSE, running |-> TRUE]),
              !.progress = Len(t.threads) + 1]

\* line 42: ProgressIndicator.stop sets the event, then waits in join
SetStop(t) == [t EXCEPT !.threads[t.progress].stop = TRUE]

TrnInit ==
    /\ trn = [pc |-> "idle", method |-> "", threads |-> <<>>, progress |-> 0,
              calls |-> 0]
    /\ vad = Idle
    /\ grp = Idle
    /\ app = Idle
    /\ asm = Idle
    /\ fmt = Idle

\* lines 82-98 (and 291-303): the API key is checked, which can raise, then
\* the upload spinner is started
TrnCall ==
    /\ trn.pc \in {"idle", "returned", "raised"}
    /\ trn.calls < MaxCalls
    /\ \E method \in TrnMethods :
          LET t == [trn EXCEPT !.method = method, !.calls = @ + 1]
          IN  \/ trn' = [t EXCEPT !.pc = "raised"]
              \/ trn' = [StartSpinner(t) EXCEPT !.pc = "upload"]
    /\ UNCHANGED <<vad, grp, app, asm, fmt>>

\* lines 99-100 (304-305): genai.upload_file returns and progress.stop is
\* called, or it raises and the handlers of lines 261-264 (364-367) raise
\* RuntimeError
TrnUpload ==
    /\ trn.pc = "upload"
    /\ \/ trn' = [SetStop(trn) EXCEPT !.pc = "join_upload"]
       \/ trn' = [trn EXCEPT !.pc = "raised"]
    /\ UNCHANGED <<vad, grp, app, asm, fmt>>

\* lines 44-45 and 182-184 (340-341): join returns once the thread has
\* ended; the prompt is built and the transcription spinner is started
TrnJoinUpload ==
    /\ trn.pc = "join_upload"
    /\ ~trn.threads[trn.progress].running
    /\ trn' = [StartSpinner(trn) EXCEPT !.pc = "generate"]
    /\ UNCHANGED <<vad, grp, app, asm, fmt>>

\* lines 185-188 (342-344): model.generate_content returns and
\* progress.stop is called, or it raises
TrnGenerate ==
    /\ trn.pc = "generate"
    /\ \/ trn' = [SetStop(trn) EXCEPT !.pc = "join_generate"]
       \/ trn' = [trn EXCEPT !.pc = "raised"]
    /\ UNCHANGED <<vad, grp, app, asm, fmt>>

\* lines 190-259 (346-362): join returns, the response is parsed, which
\* can raise, and the segments are returned
TrnJoinGenerate ==
    /\ trn.pc = "join_generate"
    /\ ~trn.threads[trn.progress].running
    /\ \/ trn' = [trn EXCEPT !.pc = "returned"]
       \/ trn' = [trn EXCEPT !.pc = "raised"]
    /\ UNCHANGED <<vad, grp, app, asm, fmt>>

\* lines 28-39: the loop of _spin ends when the event is set (while it is
\* not set the thread writes the spinner and waits a second)
SpinExit ==
    /\ \E k \in 1..Len(trn.threads) :
          /\ trn.threads[k].running
          /\ trn.threads[k].stop
          /\ trn' = [trn EXCEPT !.threads[k].running = FALSE]
    /\ UNCHANGED <<vad, grp, app, asm, fmt>>

TrnNext ==
    \/ TrnCall \/ TrnUpload \/ TrnJoinUpload \/ TrnGenerate \/ TrnJoinGenerate
    \/ SpinExit

SpecSpin == TrnInit /\ [][TrnNext]_vars

\* the spinner threads alive
Alive == { k \in 1..Len(trn.threads) : trn.threads[k].running }

\* C30 as stated: every spinner thread started by transcribe or
\* transcribe_text_only has been stopped and joined when the call returns
\* or raises, on every path (a failed upload, a failed generate_content),
\* and at most one spinner thread is alive at any time.
C30_SpinnersJoined ==
    /\ trn.pc \in {"returned", "raised"} => Alive = {}
    /\ Cardinality(Alive) <= 1

====
